---------------------------- MODULE Spec2Model ----------------------------
(***************************************************************************)
(* Project/service lifecycle orchestration of WebSFTP: the bash script     *)
(* generators of modules/scripts.js, generateScripts, and the service      *)
(* routes of web/server.js, with the process supervisor (PM2) as          *)
(* environment.                                                            *)
(*                                                                         *)
(* Text.  A string value of the program is a sequence of one-character     *)
(* strings (Str).  A generated script is a sequence of lines; a line is a  *)
(* sequence of pieces, where a piece is either a chunk of template text    *)
(* (a TLA+ string that is not a single character of Alphabet) or one       *)
(* character of an interpolated value.  Non-ASCII characters of the        *)
(* templates are transliterated (e for e-acute, [ok] for the check mark,   *)
(* [!] for the warning sign, [box] for the box-drawing dash).              *)
(***************************************************************************)
EXTENDS Integers, Sequences, FiniteSets, TLC

----------------------------------------------------------------------------
(* Strings *)

Alphabet ==
    {"a", "b", "c", "d", "e", "h", "i", "l", "m", "n", "o", "p", "r", "s",
     "t", "u", "v", "w", "-", "/", " "}

IsChar(x) == x \in Alphabet

RECURSIVE Concat(_)
Concat(ss) == IF ss = <<>> THEN <<>> ELSE Head(ss) \o Concat(Tail(ss))

\* String.prototype.startsWith
StartsWith(s, pre) ==
    /\ Len(pre) <= Len(s)
    /\ SubSeq(s, 1, Len(pre)) = pre

\* String.prototype.includes; also an unanchored match of a literal pattern
Includes(s, sub) ==
    \E i \in 0..(Len(s) - Len(sub)) : SubSeq(s, i + 1, i + Len(sub)) = sub

\* Array.prototype.join
RECURSIVE Join(_, _)
Join(ss, sep) ==
    IF ss = <<>> THEN <<>>
    ELSE IF Len(ss) = 1 THEN ss[1]
    ELSE ss[1] \o sep \o Join(Tail(ss), sep)

\* the characters of a line that follow the template chunk `open`, up to
\* the next template chunk
RECURSIVE TakeChars(_)
TakeChars(ps) ==
    IF ps = <<>> \/ ~IsChar(Head(ps)) THEN <<>>
    ELSE <<Head(ps)>> \o TakeChars(Tail(ps))

Field(line, open) ==
    IF \E i \in 1..Len(line) : line[i] = open
    THEN LET i == CHOOSE j \in 1..Len(line) :
                     /\ line[j] = open
                     /\ \A k \in 1..(j - 1) : line[k] # open
         IN TakeChars(SubSeq(line, i + 1, Len(line)))
    ELSE <<>>

HasPiece(line, piece) == \E i \in 1..Len(line) : line[i] = piece

\* the lines of a text that contain the template chunk `piece`, in order
LinesWith(text, piece) == SelectSeq(text, LAMBDA l : HasPiece(l, piece))

----------------------------------------------------------------------------
(* Values of the model *)

cShop  == <<"s", "h", "o", "p">>
cEshop == <<"e", "s", "h", "o", "p">>
cApi   == <<"a", "p", "i">>
cWeb   == <<"w", "e", "b">>
cServe == <<"s", "e", "r", "v", "e">>
cBuild == <<"b", "u", "i", "l", "d">>
cTsc   == <<"t", "s", "c">>
cNpmStart    == <<"n", "p", "m", " ", "s", "t", "a", "r", "t">>
cNpmRunBuild == <<"n", "p", "m", " ", "r", "u", "n", " ", "b", "u", "i", "l", "d">>
cNpmInstall  == <<"n", "p", "m", " ", "i", "n", "s", "t", "a", "l", "l">>
cDesc  == <<"d", "e", "m", "o">>
cVarWww == <<"/", "v", "a", "r", "/", "w", "w", "w">>

----------------------------------------------------------------------------
(* Lines of bash *)

Blank == <<>>
Lit(t) == <<t>>
Echo(ps) == <<"echo \"">> \o ps \o <<"\"">>
Bar == Echo(<<"==========================================">>)
CommentBar == Lit("# ============================================")

\* the heading every generated script starts with
Banner(title, projectName) ==
    << Lit("#!/bin/bash"),
       CommentBar,
       Lit(title),
       <<"# Projet: ">> \o projectName,
       Lit("# Genere automatiquement - Ne pas modifier"),
       CommentBar,
       Blank >>

Title(echoTitle, projectName) ==
    << Bar,
       Echo(<<echoTitle>> \o projectName),
       Bar,
       Echo(<<>>),
       Blank >>

SetE == << Lit("set -e"), Blank >>

\* the supervisor-availability precheck; start.sh adds the install hint
Pm2Check(hint) ==
    << Lit("# Verifier si PM2 est installe"),
       Lit("if ! command -v pm2 &> /dev/null; then"),
       <<"    ">> \o Echo(<<"ERREUR: PM2 n'est pas installe">>) >>
    \o (IF hint
        THEN << <<"    ">> \o Echo(<<"Installez-le avec: npm install -g pm2">>) >>
        ELSE <<>>)
    \o << Lit("    exit 1"),
          Lit("fi"),
          Blank >>

NoService == << Echo(<<"Aucun service configure pour ce projet">>) >>
Exit0 == << Lit("exit 0") >>
\* no persist step
NoSave == <<>>

Pm2Save == << Lit("# Sauvegarder la configuration PM2"), Lit("pm2 save"), Blank >>

----------------------------------------------------------------------------
(* generateStartScript *)

startPm2Name(projectName, service) == projectName \o <<"-">> \o service.name

\* service.command && (command.includes('build') || command.includes('tsc'))
LooksLikeBuild(service) ==
    /\ service.command # <<>>
    /\ Includes(service.command, cBuild) \/ Includes(service.command, cTsc)

\* a start line whose fallback restarts by service name alone
StartLineByName(projectName, service) ==
    <<"pm2 start \"">> \o service.command
    \o <<"\" --name \"">> \o startPm2Name(projectName, service)
    \o <<"\" --cwd \"">> \o service.directory
    \o <<"\" 2>/dev/null || pm2 restart \"">> \o service.name
    \o <<"\"">>

StartLine(projectName, service) ==
    <<"pm2 start \"">> \o service.command
    \o <<"\" --name \"">> \o startPm2Name(projectName, service)
    \o <<"\" --cwd \"">> \o service.directory
    \o <<"\" 2>/dev/null || pm2 restart \"">> \o startPm2Name(projectName, service)
    \o <<"\"">>

\* a start block that also prints the description of the service
StartBlockDescribed(projectName, service) ==
    << <<"# Service: ">> \o service.name,
       Echo(<<"Demarrage de ">> \o service.name \o <<"...">>),
       Echo(service.description),
       <<"cd \"">> \o service.directory \o <<"\"">>,
       StartLine(projectName, service),
       Echo(<<"  [ok] ">> \o service.name \o <<" demarre">>),
       Echo(<<>>),
       Blank >>

StartBlock(projectName, service) ==
    << <<"# Service: ">> \o service.name,
       Echo(<<"Demarrage de ">> \o service.name \o <<"...">>),
       <<"cd \"">> \o service.directory \o <<"\"">> >>
    \o (IF LooksLikeBuild(service)
        THEN << Echo(<<"[!] ATTENTION: La commande '">> \o service.command
                     \o <<"' semble etre un build">>),
                Echo(<<"[!] PM2 va redemarrer en boucle car le build se termine">>),
                Echo(<<"[!] Utilisez 'npm start' ou 'npx vite preview' pour un serveur">>),
                Echo(<<>>) >>
        ELSE <<>>)
    \o << StartLine(projectName, service),
          Echo(<<"  [ok] ">> \o service.name \o <<" demarre">>),
          Echo(<<>>),
          Blank >>

\* the blocks rendered last service first
StartBlocksReversed(projectName, services) ==
    Concat([i \in 1..Len(services) |->
               StartBlock(projectName, services[Len(services) + 1 - i])])

StartBlocks(projectName, services) ==
    Concat([i \in 1..Len(services) |-> StartBlock(projectName, services[i])])

generateStartScript(projectName, services) ==
    Banner("# Script de demarrage des services", projectName)
    \o SetE
    \o Title("  Demarrage des services: ", projectName)
    \o Pm2Check(TRUE)
    \o (IF Len(services) = 0
        THEN NoService \o Exit0
        ELSE StartBlocks(projectName, services)
             \o Pm2Save
             \o << Bar,
                   Echo(<<"  Tous les services ont ete demarres">>),
                   Bar,
                   Echo(<<>>),
                   Echo(<<"Utilisez 'pm2 status' pour voir l'etat des services">>),
                   Echo(<<"Utilisez 'pm2 logs' pour voir les logs">>) >>)

----------------------------------------------------------------------------
(* generateStopScript *)

stopPm2Name(projectName, service) == projectName \o <<"-">> \o service.name

\* a stop block whose supervisor call has no fallback
StopBlockStrict(projectName, service) ==
    << <<"# Service: ">> \o service.name,
       Echo(<<"Arret de ">> \o service.name \o <<"...">>),
       <<"pm2 stop \"">> \o stopPm2Name(projectName, service) \o <<"\"">>,
       Echo(<<"  [ok] ">> \o service.name \o <<" arrete">>),
       Echo(<<>>),
       Blank >>

StopBlock(projectName, service) ==
    << <<"# Service: ">> \o service.name,
       Echo(<<"Arret de ">> \o service.name \o <<"...">>),
       <<"pm2 stop \"">> \o stopPm2Name(projectName, service)
           \o <<"\" 2>/dev/null || echo \"  (non actif)\"">>,
       Echo(<<"  [ok] ">> \o service.name \o <<" arrete">>),
       Echo(<<>>),
       Blank >>

StopBlocks(projectName, services) ==
    Concat([i \in 1..Len(services) |-> StopBlock(projectName, services[i])])

\* a stop script without the empty-list case
generateStopScriptAlways(projectName, services) ==
    Banner("# Script d'arret des services", projectName)
    \o SetE
    \o Title("  Arret des services: ", projectName)
    \o Pm2Check(FALSE)
    \o StopBlocks(projectName, services)
    \o Pm2Save
    \o << Bar,
          Echo(<<"  Tous les services ont ete arretes">>),
          Bar >>

generateStopScript(projectName, services) ==
    Banner("# Script d'arret des services", projectName)
    \o SetE
    \o Title("  Arret des services: ", projectName)
    \o Pm2Check(FALSE)
    \o (IF Len(services) = 0
        THEN NoService \o Exit0
        ELSE StopBlocks(projectName, services)
             \o Pm2Save
             \o << Bar,
                   Echo(<<"  Tous les services ont ete arretes">>),
                   Bar >>)

----------------------------------------------------------------------------
(* generateRestartScript *)

restartPm2Name(projectName, service) == projectName \o <<"-">> \o service.name

RestartBlock(projectName, service) ==
    << <<"# Service: ">> \o service.name,
       Echo(<<"Redemarrage de ">> \o service.name \o <<"...">>),
       <<"pm2 restart \"">> \o restartPm2Name(projectName, service)
           \o <<"\" 2>/dev/null || echo \"  (demarrage initial...)\"">>,
       Echo(<<"  [ok] ">> \o service.name \o <<" redemarre">>),
       Echo(<<>>),
       Blank >>

RestartBlocks(projectName, services) ==
    Concat([i \in 1..Len(services) |-> RestartBlock(projectName, services[i])])

generateRestartScript(projectName, services) ==
    Banner("# Script de redemarrage des services", projectName)
    \o SetE
    \o Title("  Redemarrage des services: ", projectName)
    \o Pm2Check(FALSE)
    \o (IF Len(services) = 0
        THEN NoService \o Exit0
        ELSE RestartBlocks(projectName, services)
             \o Pm2Save
             \o << Bar,
                   Echo(<<"  Tous les services ont ete redemarres">>),
                   Bar >>)

----------------------------------------------------------------------------
(* generateDeployScript *)

FixPermissions ==
    << Lit("# Fonction pour corriger les permissions"),
       Lit("fix_permissions() {"),
       Lit("    local dir=\"$1\""),
       Lit("    local user=\"$2\""),
       Lit("    "),
       Lit("    echo \"Correction des permissions pour: $dir\""),
       Lit("    "),
       Lit("    # Verifier si on a les droits sudo"),
       Lit("    if sudo -n true 2>/dev/null; then"),
       Lit("        echo \"  -> Changement du proprietaire...\""),
       Lit("        sudo chown -R \"$user:$user\" \"$dir\""),
       Lit("        echo \"  -> Ajustement des permissions...\""),
       Lit("        sudo chmod -R u+rwX,g+rX,o+rX \"$dir\""),
       Lit("        echo \"  [ok] Permissions corrigees\""),
       Lit("    else"),
       Lit("        echo \"  [!] Sudo requis pour corriger les permissions\""),
       Lit("        echo \"  Executez: sudo chown -R $user:$user $dir\""),
       Lit("        exit 1"),
       Lit("    fi"),
       Lit("}"),
       Blank >>

DeployBlock(projectName, service) ==
    << <<"# Service: ">> \o service.name,
       Echo(<<"Deploiement de ">> \o service.name \o <<"...">>),
       <<"cd \"">> \o service.directory \o <<"\"">>,
       Blank,
       Lit("# Verifier et corriger les permissions si necessaire"),
       <<"if [ ! -w \"">> \o service.directory \o <<"\" ]; then">>,
       Lit("    echo \"  [!] Permissions insuffisantes\""),
       <<"    fix_permissions \"">> \o service.directory \o <<"\" \"$CURRENT_USER\"">>,
       Lit("fi"),
       Blank,
       Lit("# Installer les dependances"),
       Lit("if [ -f \"package.json\" ]; then"),
       Lit("    echo \"  -> Installation des dependances npm...\""),
       Lit("    npm install || {"),
       Lit("        echo \"  [x] Erreur lors de npm install\""),
       Lit("        echo \"  Tentative de correction des permissions...\""),
       <<"        fix_permissions \"">> \o service.directory \o <<"\" \"$CURRENT_USER\"">>,
       Lit("        npm install || exit 1"),
       Lit("    }"),
       Lit("    echo \"  [ok] Dependances installees\""),
       Lit("fi"),
       Blank,
       Lit("# Build si necessaire"),
       Lit("if grep -q '\"build\"' package.json 2>/dev/null; then"),
       Lit("    echo \"  -> Build de l'application...\""),
       Lit("    npm run build 2>/dev/null || echo \"  (pas de build configure)\""),
       Lit("fi"),
       Blank,
       Echo(<<"  [ok] ">> \o service.name \o <<" deploye">>),
       Echo(<<>>),
       Blank >>

\* a deployment that stops after the first service of the list
DeployFirstOnly(projectName, services) ==
    IF services = <<>> THEN <<>> ELSE DeployBlock(projectName, services[1])

DeployBlocks(projectName, services) ==
    Concat([i \in 1..Len(services) |-> DeployBlock(projectName, services[i])])

generateDeployScript(projectName, services) ==
    Banner("# Script de deploiement", projectName)
    \o SetE
    \o Title("  Deploiement: ", projectName)
    \o FixPermissions
    \o (IF Len(services) = 0
        THEN NoService
        ELSE << Lit("# Deploiement de chaque service"),
                Lit("CURRENT_USER=$(whoami)"),
                Blank >>
             \o DeployBlocks(projectName, services)
             \o << Bar,
                   Echo(<<"  Deploiement termine">>),
                   Bar,
                   Echo(<<>>),
                   Echo(<<"Utilisez './scripts/start.sh' pour demarrer les services">>) >>)

----------------------------------------------------------------------------
(* generateStatusScript *)

statusPm2Name(projectName, service) == projectName \o <<"-">> \o service.name

\* services.map(s => `${projectName}-${s.name}`).join('|')
StatusAlternatives(projectName, services) ==
    [i \in 1..Len(services) |-> statusPm2Name(projectName, services[i])]

StatusLine(projectName, services) ==
    <<"pm2 list | grep -E \"(">>
    \o Join(StatusAlternatives(projectName, services), <<"|">>)
    \o <<"|", "Name", "|", "[box]", ")\" || echo \"Aucun service actif\"">>

generateStatusScript(projectName, services) ==
    Banner("# Script de statut des services", projectName)
    \o Title("  Statut des services: ", projectName)
    \o Pm2Check(FALSE)
    \o (IF Len(services) = 0
        THEN NoService
        ELSE << Lit("# Afficher le statut de tous les services du projet"),
                StatusLine(projectName, services) >>)

\* generate(projectName, services): the five texts
ScriptNames == <<"start.sh", "stop.sh", "restart.sh", "status.sh", "deploy.sh">>

Generate(name, projectName, services) ==
    CASE name = "start.sh"   -> generateStartScript(projectName, services)
      [] name = "stop.sh"    -> generateStopScript(projectName, services)
      [] name = "restart.sh" -> generateRestartScript(projectName, services)
      [] name = "status.sh"  -> generateStatusScript(projectName, services)
      [] name = "deploy.sh"  -> generateDeployScript(projectName, services)

----------------------------------------------------------------------------
(* State *)

VARIABLES
    config,     \* project name -> stored service list (project.json)
    scripts,    \* project name -> script file name -> [text, exec]
    procs,      \* supervisor: the set of entries [name, online]
    pending,    \* requests suspended at an await
    last,       \* what the last completed operation did and answered
    faults,     \* filesystem failures injected so far
    databases,  \* databases.json: [mysql, mongodb], two lists of records
    users,      \* users.json: the list of user records
    conns,      \* the database connections and clients that are open
    inflight    \* the database calls that have begun and not yet settled

vars == <<config, scripts, procs, pending, last, faults, databases, users, conns, inflight>>

Projects == {cShop, cEshop}

MaxServices == 2
MaxPending == 1
MaxFaults == 1

Undef == <<"undefined">>
Null == <<"null">>
UndefList == << <<"undefined">> >>
Missing == << <<"(no such file)">> >>

\* JavaScript truthiness of a string value, and of an array value
Truthy(v) == v # Undef /\ v # Null /\ v # <<>>
OrElse(v, d) == IF Truthy(v) THEN v ELSE d
OrElseList(v, d) == IF v # UndefList THEN v ELSE d

NameIndex(name) == CHOOSE k \in 1..Len(ScriptNames) : ScriptNames[k] = name
ScriptSet == {ScriptNames[k] : k \in 1..Len(ScriptNames)}

----------------------------------------------------------------------------
(* generateScripts *)

\* Steps that can throw: 1 is loadProjectConfig; 2k is writeFileSync and
\* 2k+1 is chmodSync of the k-th file; 0 is a run in which nothing fails.
\* mkdirSync runs only when the scripts directory is absent, which it never
\* is once the project was created.  A failing writeFileSync leaves the
\* file as it was (the open failed) or truncated (the write failed).
FailPoints == 0..(2 * Len(ScriptNames) + 1)

generateScripts(projectName, cfg, files, failAt, truncated) ==
    LET services == cfg[projectName]
        New(n) == Generate(n, projectName, services)
        After(n) ==
            LET k == NameIndex(n)
            IN  IF failAt = 0 \/ failAt > 2 * k + 1
                THEN [text |-> New(n), exec |-> TRUE]
                ELSE IF failAt = 2 * k + 1
                THEN [text |-> New(n), exec |-> files[n].exec]
                ELSE IF failAt = 2 * k /\ truncated
                THEN [text |-> <<>>, exec |-> files[n].exec]
                ELSE files[n]
    IN  [ok    |-> failAt = 0,
         files |-> IF failAt = 1 THEN files ELSE [n \in ScriptSet |-> After(n)]]

NoFiles == [n \in ScriptSet |-> [text |-> Missing, exec |-> FALSE]]

\* the files on disk are the five texts generated from the service list
InSync(projectName, services, files) ==
    \A n \in ScriptSet :
        files[n] = [text |-> Generate(n, projectName, services), exec |-> TRUE]

----------------------------------------------------------------------------
(* The process supervisor (pm2), as the commands of this program see it.   *)
(* procs is a set of entries [name, online]; a call is [cmd, name, ok].     *)

HasProc(ps, h) == \E e \in ps : e.name = h
IsOnline(ps, h) == \E e \in ps : e.name = h /\ e.online
Without(ps, h) == {e \in ps : e.name # h}
Entry(h, on) == [name |-> h, online |-> on]
Call(cmd, h, ok) == [cmd |-> cmd, name |-> h, ok |-> ok]

\* pm2 start <command> --name h: a new entry, or the stopped entry of that
\* name relaunched; refused when an entry of that name is online
Pm2StartOk(ps, h) == ~IsOnline(ps, h)
Pm2Start(ps, h) == IF Pm2StartOk(ps, h) THEN Without(ps, h) \cup {Entry(h, TRUE)} ELSE ps

\* pm2 restart h / stop h / delete h: refused when no entry has that name
Pm2Restart(ps, h) == IF HasProc(ps, h) THEN Without(ps, h) \cup {Entry(h, TRUE)} ELSE ps
Pm2Stop(ps, h) == IF HasProc(ps, h) THEN Without(ps, h) \cup {Entry(h, FALSE)} ELSE ps
Pm2Delete(ps, h) == Without(ps, h)

----------------------------------------------------------------------------
(* services.addService / updateService / removeService: the store part.    *)
(* The regeneration of the scripts that follows a change is the call the   *)
(* route makes.                                                             *)

FindService(services, name) ==
    {i \in 1..Len(services) : services[i].name = name}

addService(cfg, projectName, spec) ==
    IF FindService(cfg[projectName], spec.name) # {}
    THEN [ok |-> FALSE, error |-> "DuplicateService", cfg |-> cfg]
    ELSE [ok |-> TRUE, error |-> "",
          cfg |-> [cfg EXCEPT ![projectName] = Append(@, spec)]]

\* merges the provided fields only
Merge(service, partial) ==
    [name          |-> service.name,
     directory     |-> IF partial.directory # Undef
                       THEN partial.directory ELSE service.directory,
     command       |-> IF partial.command # Undef
                       THEN partial.command ELSE service.command,
     description   |-> IF partial.description # Undef
                       THEN partial.description ELSE service.description,
     setupCommands |-> IF partial.setupCommands # UndefList
                       THEN partial.setupCommands ELSE service.setupCommands]

updateService(cfg, projectName, name, partial) ==
    IF FindService(cfg[projectName], name) = {}
    THEN [ok |-> FALSE, error |-> "NotFound", cfg |-> cfg]
    ELSE [ok |-> TRUE, error |-> "",
          cfg |-> [cfg EXCEPT ![projectName] =
                      [i \in 1..Len(@) |->
                          IF @[i].name = name THEN Merge(@[i], partial) ELSE @[i]]]]

RemoveFrom(services, name) == SelectSeq(services, LAMBDA s : s.name # name)

----------------------------------------------------------------------------
(* Requests *)

SitesPath(projectName) == cVarWww \o <<"/">> \o projectName \o <<"/", "s", "i", "t", "e", "s">>

\* request bodies of POST /projects/:name/services
AddBodies(p) ==
    { [name |-> cApi, directory |-> Undef, command |-> Undef,
       description |-> Undef, setupCommands |-> UndefList],
      [name |-> cWeb, directory |-> SitesPath(p) \o <<"/">> \o cWeb,
       command |-> cNpmRunBuild, description |-> cDesc,
       setupCommands |-> <<cNpmInstall>>],
      [name |-> Undef, directory |-> Undef, command |-> cServe,
       description |-> Undef, setupCommands |-> UndefList] }

\* request bodies of PUT /projects/:name/services/:serviceName
UpdateBodies(p) ==
    { [directory |-> Undef, command |-> cServe,
       description |-> cDesc, setupCommands |-> UndefList],
      [directory |-> Undef, command |-> Undef,
       description |-> Undef, setupCommands |-> UndefList] }

ServiceNames == {cApi, cWeb}

\* the path parameter of DELETE /projects/:name/files
DeletePaths == {cWeb, <<"w", "e">>, cApi, Undef}

Resp(op, p, status, calls) ==
    [op |-> op, status |-> status, calls |-> calls]

\* the failure injected into one run of generateScripts
Failure(failAt, truncated) ==
    /\ failAt \in FailPoints
    /\ truncated \in BOOLEAN
    /\ truncated => (failAt >= 2 /\ failAt % 2 = 0)
    /\ failAt # 0 => faults < MaxFaults

NoteFault(failAt) == faults' = IF failAt # 0 THEN faults + 1 ELSE faults

RECURSIVE SumLen(_, _)
SumLen(cfg, ps) ==
    IF ps = {} THEN 0
    ELSE LET p == CHOOSE q \in ps : TRUE
         IN  Len(cfg[p]) + SumLen(cfg, ps \ {p})

\* the number of services stored, over all projects
TotalServices(cfg) == SumLen(cfg, DOMAIN cfg)

\* what POST /projects/:name/services answers, with the request it answers
AddResp(p, body, status, error) ==
    Resp("add", p, status, <<>>)
        @@ [project |-> p, name |-> body.name, error |-> error]

\* the route with the regeneration moved out of the try block's normal path:
\* the scripts are regenerated whether or not addService threw
AddServiceRouteRegenerating(p, body, failAt, truncated) ==
    /\ Failure(failAt, truncated)
    /\ IF ~Truthy(body.name)
       THEN /\ failAt = 0
            /\ last' = AddResp(p, body, 400, "Nom du service requis")
            /\ UNCHANGED <<config, scripts, faults>>
       ELSE LET r == addService(config, p,
                        [name          |-> body.name,
                         directory     |-> OrElse(body.directory, body.name),
                         command       |-> OrElse(body.command, cNpmStart),
                         description   |-> OrElse(body.description, <<>>),
                         setupCommands |-> OrElseList(body.setupCommands, <<>>)])
                g == generateScripts(p, r.cfg, scripts[p], failAt, truncated)
            IN  /\ r.ok => TotalServices(config) < MaxServices
                /\ config' = r.cfg
                /\ scripts' = [scripts EXCEPT ![p] = g.files]
                /\ last' = AddResp(p, body, IF r.ok /\ g.ok THEN 200 ELSE 400,
                                   IF ~r.ok THEN r.error
                                   ELSE IF g.ok THEN "" ELSE "fs")
                /\ NoteFault(failAt)
    /\ UNCHANGED <<procs, pending, databases, users, conns, inflight>>

\* POST /projects/:name/services
AddServiceRoute(p, body, failAt, truncated) ==
    /\ Failure(failAt, truncated)
    /\ IF ~Truthy(body.name)
       THEN /\ failAt = 0
            /\ last' = AddResp(p, body, 400, "Nom du service requis")
            /\ UNCHANGED <<config, scripts, faults>>
       ELSE LET r == addService(config, p,
                        [name          |-> body.name,
                         directory     |-> OrElse(body.directory, body.name),
                         command       |-> OrElse(body.command, cNpmStart),
                         description   |-> OrElse(body.description, <<>>),
                         setupCommands |-> OrElseList(body.setupCommands, <<>>)])
                g == generateScripts(p, r.cfg, scripts[p], failAt, truncated)
            IN  IF ~r.ok
                THEN /\ failAt = 0
                     /\ last' = AddResp(p, body, 400, r.error)
                     /\ UNCHANGED <<config, scripts, faults>>
                ELSE /\ TotalServices(config) < MaxServices
                     /\ config' = r.cfg
                     /\ scripts' = [scripts EXCEPT ![p] = g.files]
                     /\ last' = AddResp(p, body, IF g.ok THEN 200 ELSE 400,
                                        IF g.ok THEN "" ELSE "fs")
                     /\ NoteFault(failAt)
    /\ UNCHANGED <<procs, pending, databases, users, conns, inflight>>

\* PUT /projects/:name/services/:serviceName
UpdateServiceRoute(p, serviceName, body, failAt, truncated) ==
    /\ Failure(failAt, truncated)
    /\ LET r == updateService(config, p, serviceName, body)
           g == generateScripts(p, r.cfg, scripts[p], failAt, truncated)
       IN  IF ~r.ok
           THEN /\ failAt = 0
                /\ last' = Resp("update", p, 400, <<>>)
                /\ UNCHANGED <<config, scripts, faults>>
           ELSE /\ config' = r.cfg
                /\ scripts' = [scripts EXCEPT ![p] = g.files]
                /\ last' = Resp("update", p, IF g.ok THEN 200 ELSE 400, <<>>)
                /\ NoteFault(failAt)
    /\ UNCHANGED <<procs, pending, databases, users, conns, inflight>>

removePm2Name(projectName, serviceName) == projectName \o <<"-">> \o serviceName

\* DELETE /projects/:name/services/:serviceName, up to the await inside
\* removeService: the record is read, the process is stopped (best effort)
DeleteServiceBegin(p, serviceName) ==
    /\ Cardinality(pending) < MaxPending
    /\ IF FindService(config[p], serviceName) = {}
       THEN /\ last' = Resp("remove", p, 400, <<>>)
            /\ UNCHANGED <<procs, pending>>
       ELSE LET h == removePm2Name(p, serviceName)
            IN  /\ pending' = pending \cup
                       {[op |-> "remove", project |-> p, service |-> serviceName,
                         snapshot |-> config[p],
                         calls |-> <<Call("stop", h, HasProc(procs, h)),
                                     Call("delete", h, HasProc(procs, h))>>]}
                /\ procs' = Pm2Delete(procs, h)
                /\ UNCHANGED last
    /\ UNCHANGED <<config, scripts, faults, databases, users, conns, inflight>>

\* ... and from the await on: the record is written back without the
\* service, then the route regenerates the scripts
DeleteServiceFinish(r, failAt, truncated) ==
    /\ r \in pending
    /\ r.op = "remove"
    /\ Failure(failAt, truncated)
    /\ LET cfg == [config EXCEPT ![r.project] = RemoveFrom(r.snapshot, r.service)]
           g == generateScripts(r.project, cfg, scripts[r.project], failAt, truncated)
       IN  /\ config' = cfg
           /\ scripts' = [scripts EXCEPT ![r.project] = g.files]
           /\ last' = Resp("remove", r.project, IF g.ok THEN 200 ELSE 400, r.calls)
    /\ pending' = pending \ {r}
    /\ NoteFault(failAt)
    /\ UNCHANGED <<procs, databases, users, conns, inflight>>

\* POST /projects/:name/regenerate-scripts
RegenerateScriptsRoute(p, failAt, truncated) ==
    /\ Failure(failAt, truncated)
    /\ LET g == generateScripts(p, config, scripts[p], failAt, truncated)
       IN  /\ scripts' = [scripts EXCEPT ![p] = g.files]
           /\ last' = Resp("regenerate", p, IF g.ok THEN 200 ELSE 400, <<>>)
    /\ NoteFault(failAt)
    /\ UNCHANGED <<config, procs, pending, databases, users, conns, inflight>>

\* projects.loadProjects(): the registered projects, in stored order
loadProjects == <<cShop, cEshop>>

\* regenerateAllScripts(): one generateScripts per project, each in its own
\* try/catch that only logs; the filesystem failure, if any, strikes while
\* the files of `failing` are written.  files is the outcome on disk and
\* results what happened per project; the function returns neither.
regenerateAllScripts(cfg, files, failing, failAt, truncated) ==
    LET g(p) == generateScripts(p, cfg, files[p],
                                IF p = failing THEN failAt ELSE 0, truncated)
    IN  [files |-> [p \in DOMAIN files |-> g(p).files],
         results |-> [k \in DOMAIN loadProjects |->
                         [project |-> loadProjects[k], ok |-> g(loadProjects[k]).ok]]]

\* POST /regenerate-all-scripts
RegenerateAllRoute(failing, failAt, truncated) ==
    /\ Failure(failAt, truncated)
    /\ LET r == regenerateAllScripts(config, scripts, failing, failAt, truncated)
       IN  /\ scripts' = r.files
           /\ last' = Resp("regenerate-all", <<>>, 200, <<>>)
                          @@ [results |-> r.results,
                              response |-> [success |-> TRUE,
                                            message |-> "Tous les scripts regeneres"]]
    /\ NoteFault(failAt)
    /\ UNCHANGED <<config, procs, pending, databases, users, conns, inflight>>


----------------------------------------------------------------------------
(* DELETE /projects/:name/files *)

\* String.prototype.replace(/\/+/g, '/')
RECURSIVE CollapseSlashes(_)
CollapseSlashes(s) ==
    IF Len(s) < 2 THEN s
    ELSE IF s[1] = "/" /\ s[2] = "/" THEN CollapseSlashes(Tail(s))
    ELSE <<s[1]>> \o CollapseSlashes(Tail(s))

fullTargetPath(projectName, relativePath) ==
    CollapseSlashes(SitesPath(projectName) \o <<"/">> \o relativePath)

\* a handle made of the service name alone
deleteByServiceName(projectName, service) == service.name

\* service.pm2Name || `${req.params.name}-${service.name}`
deletePm2Name(projectName, service) ==
    IF "pm2Name" \in DOMAIN service /\ Truthy(service.pm2Name)
    THEN service.pm2Name
    ELSE projectName \o <<"-">> \o service.name

\* the services the loop stops: service.directory.startsWith(fullTargetPath)
StoppedByDelete(services, target) ==
    SelectSeq(services, LAMBDA s : Truthy(s.directory) /\ StartsWith(s.directory, target))

\* stop then delete inside one try: a failing stop skips the delete
RECURSIVE StopAll(_, _, _)
StopAll(projectName, services, ps) ==
    IF services = <<>> THEN [procs |-> ps, calls |-> <<>>]
    ELSE LET h == deletePm2Name(projectName, Head(services))
             ok == HasProc(ps, h)
             rest == StopAll(projectName, Tail(services), Pm2Delete(ps, h))
         IN  [procs |-> rest.procs,
              calls |-> (IF ok
                         THEN <<Call("stop", h, TRUE), Call("delete", h, TRUE)>>
                         ELSE <<Call("stop", h, FALSE)>>) \o rest.calls]

DeleteFilesRoute(p, relativePath) ==
    /\ pending = {}
    /\ IF ~Truthy(relativePath)
       THEN /\ last' = Resp("delete-files", p, 400, <<>>) @@ [removed |-> <<>>]
            /\ UNCHANGED procs
       ELSE LET target == fullTargetPath(p, relativePath)
                projectPath == SitesPath(p)
            IN  IF ~StartsWith(target, projectPath \o <<"/">>) \/ target = projectPath
                THEN /\ last' = Resp("delete-files", p, 400, <<>>) @@ [removed |-> <<>>]
                     /\ UNCHANGED procs
                ELSE LET r == StopAll(p, StoppedByDelete(config[p], target), procs)
                     IN  /\ procs' = r.procs
                         /\ last' = Resp("delete-files", p, 200, r.calls)
                                        @@ [removed |-> target, project |-> p]
    /\ UNCHANGED <<config, scripts, pending, faults, databases, users, conns, inflight>>

----------------------------------------------------------------------------
(* The service routes: the stored list and the script files *)

Idle == [op |-> "none", status |-> 0, calls |-> <<>>]

\* hashPassword: the SHA-256 digest of a password, which determines the
\* password and is no password
\* the most database calls in flight at once
MaxCalls == 2

CallIds == 1..MaxCalls

\* a call slot with no call in it
NoCall == [fn |-> "none", pc |-> "none", handle |-> FALSE, outcome |-> "none"]
NoCalls == [n \in CallIds |-> NoCall]

hashPassword(password) == [sha256 |-> password]

cAdmin == <<"a", "d", "m", "i", "n">>
cAdmin123 == cAdmin \o <<"1", "2", "3">>

\* initUsersFile: the default administrator.  An id is the UUID's number.
InitialUsers ==
    << [id |-> 1, username |-> cAdmin, password |-> hashPassword(cAdmin123),
        role |-> "admin", mustChangePassword |-> FALSE, projects |-> <<>>] >>

\* initDatabasesConfig: the file as it is first written
NoDatabases == [mysql |-> <<>>, mongodb |-> <<>>]

Init ==
    /\ config = [p \in Projects |-> <<>>]
    /\ scripts = [p \in Projects |->
                     generateScripts(p, [q \in Projects |-> <<>>], NoFiles, 0, FALSE).files]
    /\ procs = {}
    /\ pending = {}
    /\ last = Idle
    /\ faults = 0
    /\ databases = NoDatabases
    /\ users = InitialUsers
    /\ conns = {}
    /\ inflight = NoCalls

\* the project the requests of this specification address
Requested == {cShop}

Next ==
    \/ \E p \in Requested, failAt \in FailPoints, truncated \in BOOLEAN :
          \/ \E body \in AddBodies(p) : AddServiceRoute(p, body, failAt, truncated)
          \/ \E n \in ServiceNames, body \in UpdateBodies(p) :
                UpdateServiceRoute(p, n, body, failAt, truncated)
          \/ RegenerateScriptsRoute(p, failAt, truncated)
    \/ \E p \in Requested, n \in ServiceNames : DeleteServiceBegin(p, n)
    \/ \E r \in pending, failAt \in FailPoints, truncated \in BOOLEAN :
          DeleteServiceFinish(r, failAt, truncated)
    \/ \E failing \in Projects, failAt \in FailPoints, truncated \in BOOLEAN :
          RegenerateAllRoute(failing, failAt, truncated)

Spec == Init /\ [][Next]_vars


----------------------------------------------------------------------------
(* Running a generated script under bash.                                   *)
(* env: pm2 (the supervisor binary is installed), nodir (directories cd     *)
(* cannot enter), readonly (directories that fail [ -w ]), sudo (sudo -n    *)
(* works), pkg (directories holding a package.json), build (those whose     *)
(* manifest declares a build script), mentions (those whose manifest       *)
(* holds "build" in quotes elsewhere, such as "files": ["build"]),         *)
(* installFails / retryFails / buildFails (directories in which npm        *)
(* install, its retry, and npm run build exit non-zero).                   *)

Comments ==
    { "#!/bin/bash", "# ============================================",
      "# Script de demarrage des services", "# Script d'arret des services",
      "# Script de redemarrage des services", "# Script de statut des services",
      "# Script de deploiement", "# Projet: ",
      "# Genere automatiquement - Ne pas modifier",
      "# Verifier si PM2 est installe", "# Service: ",
      "# Sauvegarder la configuration PM2",
      "# Fonction pour corriger les permissions",
      "# Deploiement de chaque service",
      "# Verifier et corriger les permissions si necessaire",
      "# Installer les dependances", "# Build si necessaire",
      "# Afficher le statut de tous les services du projet" }

\* lines that only print: echo with a payload, indented or not
IndentedEchoes ==
    { "    echo \"  [!] Permissions insuffisantes\"",
      "    echo \"  -> Installation des dependances npm...\"",
      "        echo \"  [x] Erreur lors de npm install\"",
      "        echo \"  Tentative de correction des permissions...\"",
      "    echo \"  [ok] Dependances installees\"",
      "    echo \"  -> Build de l'application...\"" }

IsEcho(line) ==
    \/ line[1] = "echo \""
    \/ Len(line) > 1 /\ line[1] = "    " /\ line[2] = "echo \""
    \/ line[1] \in IndentedEchoes

\* the index after the first line equal to `closer` below line i
AfterNext(lines, i, closer) ==
    LET js == {j \in (i + 1)..Len(lines) : lines[j] = closer}
    IN  IF js = {} THEN Len(lines) + 1
        ELSE 1 + CHOOSE j \in js : \A k \in js : j <= k

\* pm2 list: the table the supervisor prints, one row per entry
BorderRow == <<"[box]">>
HeaderRow == <<"| id | ", "name", " | status |">>
ProcRow(e) == <<"| 0 | ">> \o e.name \o <<" | ", IF e.online THEN "online" ELSE "stopped", " |">>

RECURSIVE SetToSeq(_)
SetToSeq(S) ==
    IF S = {} THEN <<>>
    ELSE LET x == CHOOSE y \in S : TRUE IN <<x>> \o SetToSeq(S \ {x})

Pm2List(ps) ==
    <<BorderRow, HeaderRow, BorderRow>>
    \o [i \in 1..Cardinality(ps) |-> ProcRow(SetToSeq(ps)[i])]
    \o <<BorderRow>>

\* the alternatives of the pattern "(a|b|...)" of the grep line
RECURSIVE SplitBar(_, _)
SplitBar(ps, cur) ==
    IF ps = <<>> THEN <<cur>>
    ELSE IF Head(ps) = "|" THEN <<cur>> \o SplitBar(Tail(ps), <<>>)
    ELSE SplitBar(Tail(ps), Append(cur, Head(ps)))

GrepAlternatives(line) == SplitBar(SubSeq(line, 2, Len(line) - 1), <<>>)

\* grep -E "(a|b|...)": the rows in which some alternative occurs
Grep(line, rows) ==
    LET alts == GrepAlternatives(line)
    IN  SelectSeq(rows, LAMBDA row : \E k \in 1..Len(alts) : Includes(row, alts[k]))

ShStart(procs0) ==
    [i |-> 1, exit |-> -1, status |-> 0, errexit |-> FALSE, cwd |-> <<>>,
     procs |-> procs0, calls |-> <<>>, out |-> {}, shown |-> <<>>]

\* a simple command ended with `status`: under set -e a failure ends the run
Done(st, status) ==
    [st EXCEPT !.i = @ + 1, !.status = status,
               !.exit = IF status # 0 /\ st.errexit THEN status ELSE @]

Said(st, line) == [Done(st, 0) EXCEPT !.out = @ \cup {line}]

\* fix_permissions "$dir" "$user"
FixPerms(st, dir, env) ==
    IF env.sudo
    THEN [Done(st, 0) EXCEPT
             !.calls = @ \o <<Call("chown", dir, TRUE), Call("chmod", dir, TRUE)>>]
    ELSE [st EXCEPT !.exit = 1, !.status = 1]

ShStep(lines, st, env) ==
    LET line == lines[st.i]
        h == IF line = <<>> THEN "" ELSE line[1]
        skip == [st EXCEPT !.i = @ + 1]
        branch(cond, closer) ==
            IF cond THEN [st EXCEPT !.i = @ + 1, !.status = 0]
            ELSE [st EXCEPT !.i = AfterNext(lines, st.i, closer), !.status = 0]
    IN  CASE line = <<>> \/ h \in Comments -> skip
          [] h = "set -e" -> [skip EXCEPT !.errexit = TRUE]
          [] h \in {"fi", "    }", "CURRENT_USER=$(whoami)"} -> Done(st, 0)
          [] IsEcho(line) -> Said(st, line)
          [] h = "exit 0" -> [st EXCEPT !.exit = 0]
          [] h = "    exit 1" -> [st EXCEPT !.exit = 1]
          [] h = "if ! command -v pm2 &> /dev/null; then" -> branch(~env.pm2, <<"fi">>)
          [] h = "cd \"" ->
                LET dir == Field(line, "cd \"")
                IN  IF dir \in env.nodir THEN Done(st, 1)
                    ELSE [Done(st, 0) EXCEPT !.cwd = dir]
          [] h = "pm2 start \"" ->
                LET name == Field(line, "\" --name \"")
                    other == Field(line, "\" 2>/dev/null || pm2 restart \"")
                IN  IF Pm2StartOk(st.procs, name)
                    THEN [Done(st, 0) EXCEPT
                             !.procs = Pm2Start(@, name),
                             !.calls = Append(@, Call("start", name, TRUE))]
                    ELSE [Done(st, IF HasProc(st.procs, other) THEN 0 ELSE 1) EXCEPT
                             !.procs = Pm2Restart(@, other),
                             !.calls = @ \o <<Call("start", name, FALSE),
                                              Call("restart", other, HasProc(st.procs, other))>>]
          [] h = "pm2 stop \"" ->
                LET name == Field(line, "pm2 stop \"")
                    ok == HasProc(st.procs, name)
                    orEcho == HasPiece(line, "\" 2>/dev/null || echo \"  (non actif)\"")
                IN  [Done(st, IF ok \/ orEcho THEN 0 ELSE 1) EXCEPT
                        !.procs = Pm2Stop(@, name),
                        !.calls = Append(@, Call("stop", name, ok)),
                        !.out = IF ok \/ ~orEcho THEN @ ELSE @ \cup {<<"  (non actif)">>}]
          [] h = "pm2 restart \"" ->
                LET name == Field(line, "pm2 restart \"")
                    ok == HasProc(st.procs, name)
                    orEcho == HasPiece(line,
                                  "\" 2>/dev/null || echo \"  (demarrage initial...)\"")
                IN  [Done(st, IF ok \/ orEcho THEN 0 ELSE 1) EXCEPT
                        !.procs = Pm2Restart(@, name),
                        !.calls = Append(@, Call("restart", name, ok)),
                        !.out = IF ok \/ ~orEcho THEN @
                                ELSE @ \cup {<<"  (demarrage initial...)">>}]
          [] h = "pm2 save" ->
                [Done(st, 0) EXCEPT !.calls = Append(@, Call("save", <<>>, TRUE))]
          [] h = "pm2 list | grep -E \"(" ->
                LET rows == Grep(line, Pm2List(st.procs))
                IN  [Done(st, 0) EXCEPT
                        !.shown = rows,
                        !.out = IF rows # <<>> THEN @ ELSE @ \cup {<<"Aucun service actif">>}]
          [] h = "fix_permissions() {" ->
                [st EXCEPT !.i = AfterNext(lines, st.i, <<"}">>)]
          [] h = "if [ ! -w \"" ->
                branch(Field(line, "if [ ! -w \"") \in env.readonly, <<"fi">>)
          [] h \in {"    fix_permissions \"", "        fix_permissions \""} ->
                FixPerms(st, Field(line, h), env)
          [] h = "if [ -f \"package.json\" ]; then" -> branch(st.cwd \in env.pkg, <<"fi">>)
          [] h = "    npm install || {" ->
                LET ok == st.cwd \notin env.installFails
                IN  [st EXCEPT
                        !.i = IF ok THEN AfterNext(lines, st.i, <<"    }">>) ELSE @ + 1,
                        !.status = 0,
                        !.calls = Append(@, Call("npm install", st.cwd, ok))]
          [] h = "        npm install || exit 1" ->
                LET ok == st.cwd \notin env.retryFails
                IN  [st EXCEPT
                        !.i = @ + 1,
                        !.status = IF ok THEN 0 ELSE 1,
                        !.exit = IF ok THEN @ ELSE 1,
                        !.calls = Append(@, Call("npm install", st.cwd, ok))]
          [] h = "if grep -q '\"build\"' package.json 2>/dev/null; then" ->
                branch(st.cwd \in env.pkg /\ st.cwd \in env.build \cup env.mentions,
                       <<"fi">>)
          [] h = "    npm run build 2>/dev/null || echo \"  (pas de build configure)\"" ->
                LET ok == st.cwd \in env.build /\ st.cwd \notin env.buildFails
                IN  [Done(st, 0) EXCEPT
                        !.calls = Append(@, Call("npm run build", st.cwd, ok)),
                        !.out = IF ok THEN @ ELSE @ \cup {<<"  (pas de build configure)">>}]
          [] OTHER -> Done(st, 127)

\* one step of a run that has not ended; the end of the file ends the run
\* with the status of the last command
ShNext(lines, st, env) ==
    IF st.exit # -1 THEN st
    ELSE IF st.i > Len(lines) THEN [st EXCEPT !.exit = st.status]
    ELSE ShStep(lines, st, env)

\* n steps
RECURSIVE ShSteps(_, _, _, _)
ShSteps(lines, st, env, n) ==
    IF n <= 1 THEN ShNext(lines, st, env)
    ELSE LET half == n \div 2
             mid == ShSteps(lines, st, env, half)
         IN  IF mid.exit # -1 THEN mid ELSE ShSteps(lines, mid, env, n - half)

\* every step moves down the file, so Len(lines) + 1 steps end the run
Sh(lines, st, env) == ShSteps(lines, st, env, Len(lines) + 1)

\* bash <file>: a file that was never written cannot be run
RunFile(file, procs0, env) ==
    IF file.text = Missing
    THEN [ShStart(procs0) EXCEPT !.exit = 127]
    ELSE Sh(file.text, ShStart(procs0), env)

----------------------------------------------------------------------------
(* services.startService / startAllServices                                 *)

\* req.body.runSetup of a start request, as JSON values
RunSetupValues == {"undefined", "true", "false", "\"false\"", "0"}

\* the flag by truthiness of the body value
RunSetupTruthy(value) == value \in {"true", "\"false\""}

\* const runSetup = req.body.runSetup !== false
RunSetupFlag(value) == value # "false"

\* env of a service operation: failing is a set of <<service name, k>>, the
\* k-th setup command of that service exits non-zero; broken is the set of
\* handles for which the supervisor's start and restart fail
RECURSIVE RunSetup(_, _, _)
RunSetup(service, k, env) ==
    IF k > Len(service.setupCommands) THEN [ok |-> TRUE, calls |-> <<>>]
    ELSE IF <<service.name, k>> \in env.failing
    THEN [ok |-> FALSE, calls |-> <<Call("setup", service.setupCommands[k], FALSE)>>]
    ELSE LET rest == RunSetup(service, k + 1, env)
         IN  [ok |-> rest.ok,
              calls |-> <<Call("setup", service.setupCommands[k], TRUE)>> \o rest.calls]

servicePm2Name(projectName, service) == projectName \o <<"-">> \o service.name

\* the supervisor part of startService: start, or restart when an entry of
\* that handle exists
Launch(projectName, service, ps, env) ==
    LET h == servicePm2Name(projectName, service)
        cmd == IF HasProc(ps, h) THEN "restart" ELSE "start"
        ok == h \notin env.broken
    IN  [ok |-> ok,
         calls |-> <<Call(cmd, h, ok)>>,
         procs |-> IF ok THEN Pm2Restart(Pm2Start(ps, h), h) ELSE ps]

startService(projectName, service, runSetup, ps, env) ==
    LET setup == IF runSetup THEN RunSetup(service, 1, env)
                 ELSE [ok |-> TRUE, calls |-> <<>>]
        launch == Launch(projectName, service, ps, env)
    IN  IF ~setup.ok
        THEN [ok |-> FALSE, calls |-> setup.calls, procs |-> ps]
        ELSE [ok |-> launch.ok, calls |-> setup.calls \o launch.calls,
              procs |-> launch.procs]

\* sequential, continue on error: one outcome per service
RECURSIVE startAllServices(_, _, _, _, _)
startAllServices(projectName, services, runSetup, ps, env) ==
    IF services = <<>> THEN [results |-> <<>>, calls |-> <<>>, procs |-> ps]
    ELSE LET one == startService(projectName, Head(services), runSetup, ps, env)
             rest == startAllServices(projectName, Tail(services), runSetup,
                                      one.procs, env)
         IN  [results |-> <<[service |-> Head(services).name, ok |-> one.ok]>>
                              \o rest.results,
              calls |-> one.calls \o rest.calls,
              procs |-> rest.procs]

----------------------------------------------------------------------------
(* The lifecycle routes and the script runs *)

Json(success, message) == [success |-> success, message |-> message]

Outcome(op, p, target, status, calls, response) ==
    [op |-> op, project |-> p, target |-> target, status |-> status,
     calls |-> calls, response |-> response]

Lookup(services, name) ==
    services[CHOOSE i \in FindService(services, name) : TRUE]

\* POST /projects/:name/services/:serviceName/start
StartServiceRoute(p, serviceName, value, env) ==
    /\ pending = {}
    /\ IF FindService(config[p], serviceName) = {}
       THEN /\ last' = Outcome("start", p, serviceName, 400, <<>>,
                               Json(FALSE, "NotFound"))
                           @@ [runSetup |-> RunSetupFlag(value), body |-> value]
            /\ UNCHANGED procs
       ELSE LET r == startService(p, Lookup(config[p], serviceName),
                                  RunSetupFlag(value), procs, env)
            IN  /\ procs' = r.procs
                /\ last' = Outcome("start", p, serviceName,
                                   IF r.ok THEN 200 ELSE 400, r.calls,
                                   IF r.ok THEN Json(TRUE, "Service demarre")
                                   ELSE Json(FALSE, "error"))
                               @@ [runSetup |-> RunSetupFlag(value), body |-> value]
    /\ UNCHANGED <<config, scripts, pending, faults, databases, users, conns, inflight>>

\* POST /projects/:name/services/:serviceName/start-only
StartOnlyRoute(p, serviceName, env) ==
    /\ pending = {}
    /\ IF FindService(config[p], serviceName) = {}
       THEN /\ last' = Outcome("start-only", p, serviceName, 400, <<>>,
                               Json(FALSE, "NotFound"))
                           @@ [runSetup |-> FALSE]
            /\ UNCHANGED procs
       ELSE LET r == startService(p, Lookup(config[p], serviceName), FALSE, procs, env)
            IN  /\ procs' = r.procs
                /\ last' = Outcome("start-only", p, serviceName,
                                   IF r.ok THEN 200 ELSE 400, r.calls,
                                   IF r.ok THEN Json(TRUE, "Service demarre (sans setup)")
                                   ELSE Json(FALSE, "error"))
                               @@ [runSetup |-> FALSE]
    /\ UNCHANGED <<config, scripts, pending, faults, databases, users, conns, inflight>>

\* POST /projects/:name/services-start-all
StartAllRoute(p, value, env) ==
    /\ pending = {}
    /\ LET r == startAllServices(p, config[p], RunSetupFlag(value), procs, env)
       IN  /\ procs' = r.procs
           /\ last' = Outcome("start-all", p, <<>>, 200, r.calls,
                              Json(TRUE, "Tous les services demarres"))
                          @@ [runSetup |-> RunSetupFlag(value), results |-> r.results]
    /\ UNCHANGED <<config, scripts, pending, faults, databases, users, conns, inflight>>

\* bash scripts/<name> of project p
RunScript(p, name, env) ==
    /\ pending = {}
    /\ LET r == RunFile(scripts[p][name], procs, env)
       IN  /\ procs' = r.procs
           /\ last' = Outcome("run", p, name, r.exit, r.calls, Json(r.exit = 0, ""))
                          @@ [out |-> r.out, shown |-> r.shown, pm2 |-> env.pm2,
                              env |-> env]
    /\ UNCHANGED <<config, scripts, pending, faults, databases, users, conns, inflight>>

----------------------------------------------------------------------------
(* The lifecycle of deployed projects: the scripts are run and the         *)
(* lifecycle routes are called on projects whose services are configured.  *)

cCron == <<"c", "r", "o", "n">>

\* the stored record of a service, as POST /projects/:name/services saves it
RunService(p, name) ==
    CASE name = cApi ->
           [name |-> cApi, directory |-> SitesPath(p) \o <<"/">> \o cApi,
            command |-> cNpmStart, description |-> <<>>,
            setupCommands |-> <<cNpmInstall, cNpmRunBuild>>]
      [] name = cWeb ->
           [name |-> cWeb, directory |-> cWeb,
            command |-> cNpmRunBuild, description |-> cDesc,
            setupCommands |-> <<>>]
      [] name = cCron ->
           [name |-> cCron, directory |-> SitesPath(p) \o <<"/">> \o cCron,
            command |-> cServe, description |-> <<>>,
            setupCommands |-> <<cNpmInstall>>]

RunNames == {cApi, cWeb, cCron}

RunConfigs ==
    { [p \in Projects |-> IF p = cShop THEN <<>> ELSE <<RunService(p, cApi)>>],
      [p \in Projects |->
          IF p = cShop
          THEN <<RunService(p, cApi), RunService(p, cWeb), RunService(p, cCron)>>
          ELSE <<RunService(p, cApi)>>] }

AllDirs == {RunService(p, n).directory : p \in Projects, n \in RunNames}

BaseEnv ==
    [pm2 |-> TRUE, nodir |-> {}, readonly |-> {}, sudo |-> TRUE, pkg |-> AllDirs,
     build |-> {cWeb}, mentions |-> {}, installFails |-> {}, retryFails |-> {},
     buildFails |-> {}]

\* the environments a script is run in: deploy.sh does not call the
\* supervisor, the other four call nothing else
ScriptEnvs(name) ==
    IF name = "deploy.sh"
    THEN { BaseEnv,
           [BaseEnv EXCEPT !.pm2 = FALSE],
           [BaseEnv EXCEPT !.readonly = AllDirs, !.sudo = FALSE],
           [BaseEnv EXCEPT !.installFails = AllDirs, !.buildFails = AllDirs],
           [BaseEnv EXCEPT !.mentions = {RunService(cShop, cApi).directory}],
           [BaseEnv EXCEPT !.installFails = AllDirs, !.retryFails = AllDirs] }
    ELSE { BaseEnv,
           [BaseEnv EXCEPT !.pm2 = FALSE],
           [BaseEnv EXCEPT !.nodir = {cWeb}] }

\* the environments a service operation runs in
ServiceEnvs ==
    { [failing |-> {}, broken |-> {}],
      [failing |-> {<<cApi, 1>>}, broken |-> {}],
      [failing |-> {<<cApi, 2>>}, broken |-> {}],
      [failing |-> {}, broken |-> {cShop \o <<"-">> \o cWeb}] }

InitRun ==
    /\ config \in RunConfigs
    /\ scripts = [p \in Projects |-> generateScripts(p, config, NoFiles, 0, FALSE).files]
    /\ procs = {}
    /\ pending = {}
    /\ last = Idle
    /\ faults = 0
    /\ databases = NoDatabases
    /\ users = InitialUsers
    /\ conns = {}
    /\ inflight = NoCalls

\* the project under test, and the second project whose process runs
\* next to it
Operated == cShop
Neighbour == cEshop

NextRun ==
    \/ \E n \in ScriptSet : \E env \in ScriptEnvs(n) : RunScript(Operated, n, env)
    \/ \E s \in {cApi, cWeb}, value \in RunSetupValues, env \in ServiceEnvs :
          StartServiceRoute(Operated, s, value, env)
    \/ \E s \in RunNames, env \in ServiceEnvs : StartOnlyRoute(Operated, s, env)
    \/ \E value \in RunSetupValues, env \in ServiceEnvs :
          StartAllRoute(Operated, value, env)
    \/ \E path \in DeletePaths : DeleteFilesRoute(Operated, path)
    \/ StartOnlyRoute(Neighbour, cApi, [failing |-> {}, broken |-> {}])
    \/ RunScript(Neighbour, "status.sh", BaseEnv)

SpecRun == InitRun /\ [][NextRun]_vars

----------------------------------------------------------------------------
(* Reading a generated script back *)

\* the value interpolated after the template chunk `open`, line by line
Fields(text, open) ==
    LET ls == LinesWith(text, open)
    IN  [i \in 1..Len(ls) |-> Field(ls[i], open)]

Handle(projectName, serviceName) == projectName \o <<"-">> \o serviceName
HandlesOf(projectName, services) ==
    [i \in 1..Len(services) |-> Handle(projectName, services[i].name)]
NamesOf(services) == [i \in 1..Len(services) |-> services[i].name]

\* a service list with the fields no script mentions blanked
Core(services) ==
    [i \in 1..Len(services) |->
        [services[i] EXCEPT !.description = <<>>, !.setupCommands = <<>>]]

GenOps == {"add", "update", "remove", "regenerate"}

----------------------------------------------------------------------------
(* C1: the five generators are functions of the project name and of the
   ordered name, directory and command fields of the services only: the
   texts do not change when description and setupCommands are blanked, and
   a regeneration that follows a successful generation from the same stored
   list leaves the five files byte-identical, whatever happened in between. *)
C1_FieldsOnly ==
    \A p \in Projects, n \in ScriptSet :
        Generate(n, p, config[p]) = Generate(n, p, Core(config[p]))

C1_Regenerate ==
    /\ last.op \in GenOps /\ last.status = 200
    /\ last'.op = "regenerate" /\ last'.status = 200
    => scripts' = scripts

C1_Pure == []C1_FieldsOnly /\ [][C1_Regenerate]_vars

C1_Witness ==
    /\ last.op = "regenerate" /\ last.status = 200
    /\ Len(config[cShop]) = 2
    /\ \E i \in 1..2 : config[cShop][i].description # <<>>
    /\ InSync(cShop, config[cShop], scripts[cShop])

(* C2: start.sh, stop.sh, restart.sh and deploy.sh hold exactly one block
   per stored service, in stored order: the handles named by the supervisor
   commands, and the names of the "# Service:" headings, are those of
   s1..sn in that order, none omitted and none twice. *)
C2_OneBlockPerServiceInOrder ==
    \A p \in Projects :
        LET ss == config[p]
            text(n) == Generate(n, p, ss)
        IN  /\ Fields(text("start.sh"), "\" --name \"") = HandlesOf(p, ss)
            /\ Fields(text("stop.sh"), "pm2 stop \"") = HandlesOf(p, ss)
            /\ Fields(text("restart.sh"), "pm2 restart \"") = HandlesOf(p, ss)
            /\ \A n \in {"start.sh", "stop.sh", "restart.sh", "deploy.sh"} :
                  Fields(text(n), "# Service: ") = NamesOf(ss)

C2_Witness ==
    /\ NamesOf(config[cShop]) = <<cApi, cWeb>>
    /\ InSync(cShop, config[cShop], scripts[cShop])
    /\ Fields(scripts[cShop]["start.sh"].text, "\" --name \"")
           = <<cShop \o <<"-">> \o cApi, cShop \o <<"-">> \o cWeb>>

(* C3: status.sh of a project shows a row of the supervisor's listing only
   if the row is a header or separator line, or the handle of the row is
   '<project>-<service>' for one of the project's services. *)
RowHandle(row) == Field(row, "| 0 | ")

C3_StatusShowsOwnRowsOnly ==
    (last.op = "run" /\ last.target = "status.sh") =>
        \A k \in 1..Len(last.shown) :
            \/ last.shown[k] \in {BorderRow, HeaderRow}
            \/ \E i \in 1..Len(config[last.project]) :
                  RowHandle(last.shown[k])
                      = Handle(last.project, config[last.project][i].name)

(* C4: the start.sh, stop.sh, restart.sh and deploy.sh generated from an
   empty service list (also after the only service was removed), run in any
   environment, issue no supervisor command; deploy.sh prints the
   informational message and exits 0 in every environment; start.sh,
   stop.sh and restart.sh print it and exit 0 where the supervisor binary
   is installed, and exit 1 without printing it where it is not. *)
NoOpScripts == {"start.sh", "stop.sh", "restart.sh", "deploy.sh"}

\* the file on disk is the text generated from the empty list
EmptyForm(p, n) ==
    /\ config[p] = <<>>
    /\ scripts[p][n] = [text |-> Generate(n, p, <<>>), exec |-> TRUE]

Informed(r) == NoService[1] \in r.out

C4_EmptyNoOp ==
    \A p \in Projects, n \in NoOpScripts :
        EmptyForm(p, n) =>
            \A env \in ScriptEnvs(n) :
                LET r == RunFile(scripts[p][n], procs, env)
                IN  /\ r.calls = <<>>
                    /\ r.procs = procs
                    /\ IF env.pm2 \/ n = "deploy.sh"
                       THEN Informed(r) /\ r.exit = 0
                       ELSE ~Informed(r) /\ r.exit = 1

C4_Witness ==
    /\ last.op = "remove" /\ last.status = 200
    /\ EmptyForm(cShop, "start.sh")
    /\ RunFile(scripts[cShop]["start.sh"], procs, BaseEnv).exit = 0
    /\ RunFile(scripts[cShop]["start.sh"], procs, [BaseEnv EXCEPT !.pm2 = FALSE]).exit = 1

(* C4 as stated: the four scripts of an empty service list print the
   message, issue no supervisor command and exit 0 in every environment. *)
C4_EmptyExitsZero ==
    \A p \in Projects, n \in NoOpScripts :
        EmptyForm(p, n) =>
            \A env \in ScriptEnvs(n) :
                LET r == RunFile(scripts[p][n], procs, env)
                IN  r.calls = <<>> /\ Informed(r) /\ r.exit = 0

(* C5: the handle of a service is the same string '<project>-<service>'
   in the start, fallback-restart, stop and restart commands of the
   scripts on disk, in the alternatives of the status.sh filter, and in the
   supervisor stop/delete commands of the file-delete endpoint. *)
StatusFilter(text) == LinesWith(text, "pm2 list | grep -E \"(")

C5_SameHandle ==
    /\ \A p \in Projects :
          LET ss == config[p]
              hs == HandlesOf(p, ss)
              text(n) == scripts[p][n].text
          IN  /\ Fields(text("start.sh"), "\" --name \"") = hs
              /\ Fields(text("start.sh"), "\" 2>/dev/null || pm2 restart \"") = hs
              /\ Fields(text("stop.sh"), "pm2 stop \"") = hs
              /\ Fields(text("restart.sh"), "pm2 restart \"") = hs
              /\ ss # <<>> =>
                    /\ Len(StatusFilter(text("status.sh"))) = 1
                    /\ SubSeq(GrepAlternatives(StatusFilter(text("status.sh"))[1]),
                              1, Len(ss)) = hs
    /\ (last.op = "delete-files" /\ last.status = 200) =>
          LET under == StoppedByDelete(config[last.project], last.removed)
          IN  \A k \in 1..Len(last.calls) :
                 /\ last.calls[k].cmd \in {"stop", "delete"}
                 /\ \E i \in 1..Len(under) :
                       last.calls[k].name = Handle(last.project, under[i].name)

C5_Witness ==
    /\ last.op = "delete-files" /\ last.status = 200
    /\ last.calls = << Call("stop", Handle(cShop, cApi), TRUE),
                       Call("delete", Handle(cShop, cApi), TRUE) >>
    /\ Fields(scripts[cShop]["start.sh"].text, "\" --name \"")[1] = Handle(cShop, cApi)

(* C6: whenever no request is in progress, the five script files of every
   project equal the generators' output for its stored service list. *)
C6_ScriptsInSync ==
    pending = {} => \A p \in Projects : InSync(p, config[p], scripts[p])

(* C7: a run of generateScripts replaces all five files of the project by
   the texts generated from the stored list, or leaves all five untouched. *)
C7_AllOrNothing ==
    [][\A p \in Projects :
          \/ scripts'[p] = scripts[p]
          \/ InSync(p, config'[p], scripts'[p])]_vars

(* C8: when an operation that started a service is directly followed by
   another start of the same service, the second one issues exactly one
   supervisor 'restart' for the handle and no 'start' that succeeds: the
   service operations issue no 'start' at all, start.sh issues one, which
   the supervisor refuses, before the restart; the supervisor holds one
   entry for the handle. *)
IsStart(l) ==
    \/ l.op \in {"start", "start-only", "start-all"}
    \/ l.op = "run" /\ l.target = "start.sh"

CallsFor(l, h, cmd) == SelectSeq(l.calls, LAMBDA c : c.cmd = cmd /\ c.name = h)

RunHandles == {Handle(p, n) : p \in Projects, n \in RunNames}

\* the operation launched h / reached the supervisor for h
Launched(l, h) == IsStart(l) /\ CallsFor(l, h, "start") = <<Call("start", h, TRUE)>>
Again(l, h) ==
    IsStart(l) /\ (CallsFor(l, h, "start") # <<>> \/ CallsFor(l, h, "restart") # <<>>)

EntriesOf(ps, h) == {e \in ps : e.name = h}

C8_SecondStartRestarts ==
    [][\A h \in RunHandles :
          (Launched(last, h) /\ Again(last', h)) =>
              /\ Len(CallsFor(last', h, "restart")) = 1
              /\ CallsFor(last', h, "start")
                     = IF last'.op = "run" THEN <<Call("start", h, FALSE)>> ELSE <<>>
              /\ Cardinality(EntriesOf(procs', h)) = 1]_vars

C8_Witness ==
    /\ last.op = "run" /\ last.target = "start.sh"
    /\ CallsFor(last, Handle(cShop, cApi), "start")
           = <<Call("start", Handle(cShop, cApi), FALSE)>>
    /\ CallsFor(last, Handle(cShop, cApi), "restart")
           = <<Call("restart", Handle(cShop, cApi), TRUE)>>

(* C8 as stated: the second of two starts in a row issues one 'restart'
   and no second 'start' call for the handle. *)
C8_OneStartOneRestart ==
    [][\A h \in RunHandles :
          (Launched(last, h) /\ Again(last', h)) =>
              /\ Len(CallsFor(last', h, "restart")) = 1
              /\ CallsFor(last', h, "start") = <<>>
              /\ Cardinality(EntriesOf(procs', h)) = 1]_vars

(* C9: startService with runSetup=true runs the setup commands in order;
   a setup command that exits non-zero is the last command of the start: no
   later setup command runs and the supervisor's start or restart is never
   invoked; without runSetup no setup command runs.  The start endpoint
   passes runSetup=true unless the body's runSetup is exactly false, and
   start-only passes false. *)
SetupCalls(l) == SelectSeq(l.calls, LAMBDA c : c.cmd = "setup")
SupervisorCalls(l) == SelectSeq(l.calls, LAMBDA c : c.cmd \in {"start", "restart"})

C9_SetupAborts ==
    /\ (/\ last.op \in {"start", "start-only"}
        /\ FindService(config[last.project], last.target) # {}) =>
          LET svc == Lookup(config[last.project], last.target)
              setup == SetupCalls(last)
              n == Len(setup)
          IN  /\ last.calls = setup \o SupervisorCalls(last)
              /\ ~last.runSetup => n = 0
              /\ last.runSetup =>
                    /\ n <= Len(svc.setupCommands)
                    /\ \A k \in 1..n : setup[k].name = svc.setupCommands[k]
                    /\ \A k \in 1..n :
                          ~setup[k].ok =>
                              /\ k = n
                              /\ SupervisorCalls(last) = <<>>
                              /\ last.status = 400
                    /\ (\A k \in 1..n : setup[k].ok) => n = Len(svc.setupCommands)
    /\ last.op = "start" => (last.runSetup <=> last.body # "false")
    /\ last.op = "start-only" => ~last.runSetup

C9_Witness ==
    /\ last.op = "start" /\ last.target = cApi /\ last.body = "\"false\""
    /\ last.calls = << Call("setup", cNpmInstall, TRUE),
                       Call("setup", cNpmRunBuild, FALSE) >>
    /\ EntriesOf(procs, Handle(cShop, cApi)) = {}

(* C10: start-all attempts every service of the project in stored order,
   also after one failed, and the answer the caller receives differs from
   the answer of a run in which all started whenever a service failed. *)
AllStarted == Json(TRUE, "Tous les services demarres")

C10_OutcomesReported ==
    last.op = "start-all" =>
        /\ [k \in 1..Len(last.results) |-> last.results[k].service]
               = NamesOf(config[last.project])
        /\ (\E k \in 1..Len(last.results) : ~last.results[k].ok) =>
               last.response # AllStarted

(* C11: a request that adds a service whose name is already stored in the
   project is answered with the duplicate-service error, and leaves the
   stored service list and the script files as they were. *)
C11_DuplicateRejected ==
    [][(/\ last' # last
        /\ last'.op = "add"
        /\ Truthy(last'.name)
        /\ FindService(config[last'.project], last'.name) # {}) =>
           /\ last'.status = 400
           /\ last'.error = "DuplicateService"
           /\ config' = config
           /\ scripts' = scripts]_vars

C11_Witness ==
    /\ last.op = "add" /\ last.status = 400
    /\ last.error = "DuplicateService" /\ last.name = cApi
    /\ FindService(config[cShop], cApi) # {}
    /\ ~InSync(cShop, config[cShop], scripts[cShop])

(* C12: two overlapping requests that modify the service list of one
   project both take effect: when a remove request that was suspended at
   its await completes, the stored list is the list stored at that moment
   (with what the requests served in between added or changed) without the
   removed service. *)
C12_NoLostUpdate ==
    [][\A r \in pending :
          r \notin pending' =>
              config'[r.project] = RemoveFrom(config[r.project], r.service)]_vars

(***************************************************************************)
(* Administration routes of web/server.js: projects, SFTP passwords, the   *)
(* supervisor's process list and the databases listing.  Request bodies    *)
(* are JSON, so a field is any JSON value and not only a string.           *)
(***************************************************************************)

\* the JSON values a body field can hold
JsUndefined == [t |-> "undefined", s |-> <<>>, n |-> 0]
JsNull == [t |-> "null", s |-> <<>>, n |-> 0]
JsString(str) == [t |-> "string", s |-> str, n |-> 0]
JsNumber(num) == [t |-> "number", s |-> <<>>, n |-> num]

\* !v of JavaScript, negated
JsTruthy(v) ==
    CASE v.t = "string" -> v.s # <<>>
      [] v.t = "number" -> v.n # 0
      [] OTHER -> FALSE

MinPasswordLength == 8

\* password.length < 8: a number has no length, and undefined < 8 is false
TooShort(v) == v.t = "string" /\ Len(v.s) < MinPasswordLength

\* the longest password tried
MaxPassword == 9

RECURSIVE Repeat(_, _)
Repeat(ch, k) == IF k = 0 THEN <<>> ELSE <<ch>> \o Repeat(ch, k - 1)

Passwords ==
    {JsUndefined, JsNull, JsNumber(0), JsNumber(1234)}
        \cup {JsString(Repeat("a", k)) : k \in 0..MaxPassword}

cBlog == <<"b", "l", "o", "g">>

\* projects.createProject: refuses a name already registered, registers
\* the project with no service otherwise
createProject(cfg, name, ok) ==
    IF name \in DOMAIN cfg \/ ~ok
    THEN [ok |-> FALSE, cfg |-> cfg]
    ELSE [ok |-> TRUE, cfg |-> cfg @@ (name :> <<>>)]

AdminResp(op, p, password, status, calls) ==
    [op |-> op, status |-> status, calls |-> calls,
     project |-> p, password |-> password]

\* POST /projects
CreateProjectRoute(name, password, ok) ==
    /\ IF ~Truthy(name) \/ ~JsTruthy(password)
       THEN /\ last' = AdminResp("create-project", name, password, 400, <<>>)
            /\ UNCHANGED <<config, scripts>>
       ELSE IF TooShort(password)
       THEN /\ last' = AdminResp("create-project", name, password, 400, <<>>)
            /\ UNCHANGED <<config, scripts>>
       ELSE LET r == createProject(config, name, ok)
                g == generateScripts(name, r.cfg, NoFiles, 0, FALSE)
            IN  IF ~r.ok
                THEN /\ last' = AdminResp("create-project", name, password, 400,
                                          <<Call("createProject", name, FALSE)>>)
                     /\ UNCHANGED <<config, scripts>>
                ELSE /\ config' = r.cfg
                     /\ scripts' = scripts @@ (name :> g.files)
                     /\ last' = AdminResp("create-project", name, password, 200,
                                          <<Call("createProject", name, TRUE),
                                            Call("generateScripts", name, TRUE)>>)
    /\ UNCHANGED <<procs, pending, faults, databases, users, conns, inflight>>

\* POST /projects/:name/change-password
ChangePasswordRoute(p, password, ok) ==
    /\ IF ~JsTruthy(password) \/ TooShort(password)
       THEN last' = AdminResp("change-password", p, password, 400, <<>>)
       ELSE last' = AdminResp("change-password", p, password,
                              IF ok THEN 200 ELSE 400,
                              <<Call("changeSftpPassword", p, ok)>>)
    /\ UNCHANGED <<config, scripts, procs, pending, faults, databases, users, conns, inflight>>

\* what `pm2 jlist` can leave on stdout: a JSON array of process records,
\* another JSON value, or text that is not JSON
JsonArray(items) == [kind |-> "array", items |-> items]
JsonObject == [kind |-> "object", items |-> <<>>]
JsonNull == [kind |-> "null", items |-> <<>>]
NotJson == [kind |-> "invalid", items |-> <<>>]

\* JSON.parse: throws on text that is not JSON, returns the value otherwise
JsonParse(text) == [ok |-> text.kind # "invalid", value |-> text]

Stdouts(ps) == {JsonArray(<<>>), JsonArray(SetToSeq(ps)), JsonObject, JsonNull, NotJson}

\* GET /pm2/status: execOk is whether shell.execCommand resolved
Pm2StatusRoute(execOk, stdout) ==
    /\ LET parsed == JsonParse(stdout)
           data == IF execOk /\ parsed.ok THEN parsed.value ELSE JsonArray(<<>>)
       IN  last' = [op |-> "pm2-status", status |-> 200, calls |-> <<>>,
                    execOk |-> execOk, stdout |-> stdout,
                    response |-> [success |-> TRUE, data |-> data]]
    /\ UNCHANGED <<config, scripts, procs, pending, faults, databases, users, conns, inflight>>

\* a stored database; projectName is Null for a database of no project
Database(id, projectName) == [id |-> id, projectName |-> projectName]

WithType(dbs, type) == [i \in DOMAIN dbs |-> dbs[i] @@ [type |-> type]]

\* Array.prototype.includes
ArrayIncludes(list, x) == \E i \in DOMAIN list : list[i] = x

\* getAllDatabases(projectName = null)
getAllDatabases(dbs, projectName) ==
    LET allDbs == WithType(dbs.mysql, "mysql") \o WithType(dbs.mongodb, "mongodb")
        Keep(db) == db.projectName = projectName
    IN  IF Truthy(projectName) THEN SelectSeq(allDbs, Keep) ELSE allDbs

\* getDatabasesForUser(user)
getDatabasesForUser(dbs, user) ==
    LET userProjects == OrElseList(user.projects, <<>>)
        allDbs == WithType(dbs.mysql, "mysql") \o WithType(dbs.mongodb, "mongodb")
        Keep(db) == Truthy(db.projectName) /\ ArrayIncludes(userProjects, db.projectName)
    IN  IF user.role = "admin" THEN getAllDatabases(dbs, Null)
        ELSE SelectSeq(allDbs, Keep)

\* the accounts that send requests
Users ==
    {[role |-> "admin", projects |-> <<>>],
     [role |-> "user", projects |-> <<cShop>>],
     [role |-> "user", projects |-> <<>>],
     [role |-> "user", projects |-> UndefList]}

\* GET /databases?projectName=...: the handler never reads the requester
DatabasesRoute(user, projectName) ==
    /\ last' = [op |-> "databases", status |-> 200, calls |-> <<>>, user |-> user,
                response |-> [success |-> TRUE,
                              data |-> getAllDatabases(databases, OrElse(projectName, Null))]]
    /\ UNCHANGED <<config, scripts, procs, pending, faults, databases, users, conns, inflight>>

\* a call of getDatabasesForUser itself, as a caller holding the account
\* would make it
DatabasesForUserCall(user) ==
    /\ last' = [op |-> "getDatabasesForUser", status |-> 200, calls |-> <<>>,
                user |-> user,
                response |-> [success |-> TRUE,
                              data |-> getDatabasesForUser(databases, user)]]
    /\ UNCHANGED <<config, scripts, procs, pending, faults, databases, users, conns, inflight>>

cMysql1 == <<"m", "y", "s", "q", "l", "_", "1">>
cMysql2 == <<"m", "y", "s", "q", "l", "_", "2">>
cMongo1 == <<"m", "o", "n", "g", "o", "_", "1">>

\* one database of each project and one of no project
StoredDatabases ==
    [mysql |-> <<Database(cMysql1, cShop), Database(cMysql2, Null)>>,
     mongodb |-> <<Database(cMongo1, cEshop)>>]

\* a project and a service whose names hold a hyphen
cShopWeb == cShop \o <<"-">> \o cWeb
cWebApi == cWeb \o <<"-">> \o cApi

\* request bodies of POST /projects/:name/services that give a name only
NamedBodies ==
    { [name |-> n, directory |-> Undef, command |-> Undef,
       description |-> Undef, setupCommands |-> UndefList] : n \in {cApi, cWebApi} }

InitAdmin ==
    /\ config = [p \in Projects |-> <<>>]
    /\ scripts = [p \in Projects |-> generateScripts(p, config, NoFiles, 0, FALSE).files]
    /\ procs = {Entry(cShop \o <<"-">> \o cApi, TRUE)}
    /\ pending = {}
    /\ last = Idle
    /\ faults = 0
    /\ databases = StoredDatabases
    /\ users = InitialUsers
    /\ conns = {}
    /\ inflight = NoCalls

NextAdmin ==
    \/ \E name \in {Undef, cShop, cBlog}, password \in Passwords, ok \in BOOLEAN :
          CreateProjectRoute(name, password, ok)
    \/ \E p \in Projects, password \in Passwords, ok \in BOOLEAN :
          ChangePasswordRoute(p, password, ok)
    \/ \E execOk \in BOOLEAN, stdout \in Stdouts(procs) : Pm2StatusRoute(execOk, stdout)
    \/ \E user \in Users, projectName \in {Undef, cShop} : DatabasesRoute(user, projectName)
    \/ \E user \in Users : DatabasesForUserCall(user)

SpecAdmin == InitAdmin /\ [][NextAdmin]_vars

\* projects are created and services added to them, under names with and
\* without a hyphen
NextNames ==
    \/ \E name \in {cShop, cBlog, cShopWeb}, k \in {7, 8}, ok \in BOOLEAN :
          CreateProjectRoute(name, JsString(Repeat("a", k)), ok)
    \/ \E p \in DOMAIN config \cap {cShop, cShopWeb}, body \in NamedBodies :
          AddServiceRoute(p, body, 0, FALSE)

SpecNames == InitAdmin /\ [][NextNames]_vars

\* the characters of a password as the account tool would receive it
RECURSIVE Digits(_)
Digits(num) == IF num < 10 THEN 1 ELSE 1 + Digits(num \div 10)

Characters(v) ==
    CASE v.t = "string" -> Len(v.s)
      [] v.t = "number" -> Digits(v.n)
      [] OTHER -> 0

PasswordRoutes == {"create-project", "change-password"}

(* C13: a create-project or change-password request whose password is     *)
(* missing or has fewer than 8 characters is answered 400 and invokes      *)
(* none of createProject, generateScripts, changeSftpPassword.             *)
C13_ShortPasswordRejected ==
    (/\ last.op \in PasswordRoutes
     /\ \/ last.password.t \in {"undefined", "null"}
        \/ Characters(last.password) < MinPasswordLength)
        => last.status = 400 /\ last.calls = <<>>

(* C14: the status query answers success with an empty process list        *)
(* whenever the list command failed or its output is not a list of         *)
(* records, and leaves every other part of the state alone.                *)
C14_StatusNeverFails ==
    last.op = "pm2-status" =>
        /\ last.status = 200
        /\ last.response.success
        /\ (~last.execOk \/ last.stdout.kind # "array")
              => last.response.data = JsonArray(<<>>)

(* C19: a non-admin requester is listed only databases whose projectName   *)
(* is one of that requester's projects; an admin is listed all of them.    *)
C19_OwnDatabasesOnly ==
    last.op \in {"databases", "getDatabasesForUser"} =>
        LET data == last.response.data
            mine == OrElseList(last.user.projects, <<>>)
        IN  IF last.user.role = "admin"
            THEN last.op = "getDatabasesForUser"
                    => Len(data) = Len(databases.mysql) + Len(databases.mongodb)
            ELSE \A i \in DOMAIN data : ArrayIncludes(mine, data[i].projectName)

----------------------------------------------------------------------------
(* Runs of deploy.sh                                                       *)

IsDeploy == last.op = "run" /\ last.target = "deploy.sh"

\* the services whose deployment a run announced as done
Deployed(p, out) ==
    {i \in DOMAIN config[p] :
        Echo(<<"  [ok] ">> \o config[p][i].name \o <<" deploye">>) \in out}

BuildCalls == {i \in DOMAIN last.calls : last.calls[i].cmd = "npm run build"}

\* the same run in the environment where no build fails
WithoutBuildFailure ==
    RunFile(scripts[last.project]["deploy.sh"], procs,
            [last.env EXCEPT !.buildFails = {}, !.build = @ \cup last.env.mentions])

Attempted(p, out) ==
    {i \in DOMAIN config[p] :
        Echo(<<"Deploiement de ">> \o config[p][i].name \o <<"...">>) \in out}

(* C16: whichever step fails for one service, a run of deploy.sh still     *)
(* begins the deployment of every service of the list.                     *)
C16_LoopContinues ==
    IsDeploy => Attempted(last.project, last.out) = DOMAIN config[last.project]

----------------------------------------------------------------------------
(* Runs of stop.sh and restart.sh                                          *)

Verb(target) == IF target = "stop.sh" THEN "stop" ELSE "restart"

NotRunningNote(target) ==
    IF target = "stop.sh" THEN <<"  (non actif)">> ELSE <<"  (demarrage initial...)">>

\* a run of stop.sh or restart.sh on a host where the supervisor is installed
IsStopOrRestart ==
    /\ last.op = "run"
    /\ last.target \in {"stop.sh", "restart.sh"}
    /\ last.env.pm2

(* C17: a run of stop.sh or restart.sh calls the supervisor once for each  *)
(* service in stored order, whether or not the service is running, prints  *)
(* a note for each one that is not, then persists the supervisor state,    *)
(* and exits 0.                                                            *)
C17_NotRunningTolerated ==
    IsStopOrRestart =>
        LET services == config[last.project]
            n == Len(services)
        IN  /\ last.status = 0
            /\ Len(last.calls) = IF n = 0 THEN 0 ELSE n + 1
            /\ \A i \in 1..n :
                  /\ last.calls[i].cmd = Verb(last.target)
                  /\ last.calls[i].name = last.project \o <<"-">> \o services[i].name
                  /\ ~last.calls[i].ok => NotRunningNote(last.target) \in last.out
            /\ n > 0 => last.calls[n + 1].cmd = "save"

\* the first service was not running, a later one was, and the state was
\* persisted
C17_Witness ==
    /\ IsStopOrRestart
    /\ Len(last.calls) = 4
    /\ ~last.calls[1].ok
    /\ last.calls[2].ok
    /\ last.calls[4].cmd = "save"
    /\ last.status = 0

----------------------------------------------------------------------------
(* Runs of start.sh                                                        *)

IsStartRun == last.op = "run" /\ last.target = "start.sh"

Saves == {i \in DOMAIN last.calls : last.calls[i].cmd = "save"}

StartCalls == {i \in DOMAIN last.calls : last.calls[i].cmd = "start"}

\* in the calls of the run, a restart of a handle directly follows a failed
\* start of that handle, and nothing else is a restart
RestartIffStartFailed ==
    /\ \A i \in DOMAIN last.calls :
          last.calls[i].cmd = "restart" =>
              /\ i > 1
              /\ last.calls[i - 1] = Call("start", last.calls[i].name, FALSE)
    /\ \A i \in StartCalls :
          ~last.calls[i].ok =>
              /\ i < Len(last.calls)
              /\ last.calls[i + 1].cmd = "restart"
              /\ last.calls[i + 1].name = last.calls[i].name

(* C20: in a run of start.sh the restart of a handle is invoked exactly    *)
(* when the start of that handle failed; pm2 save runs at most once, as    *)
(* the last call and after the start of every service, and it runs exactly *)
(* when the run reaches the end of a script with services (exit 0).        *)
C20_RestartOnFailureSaveAtEnd ==
    IsStartRun =>
        LET n == Len(config[last.project])
        IN  /\ RestartIffStartFailed
            /\ Cardinality(Saves) <= 1
            /\ \A k \in Saves :
                  /\ k = Len(last.calls)
                  /\ Cardinality(StartCalls) = n
            /\ Saves # {} <=> (last.status = 0 /\ n > 0)

\* of three services the first was running and was restarted, and the state
\* was persisted once at the end
C20_Witness ==
    /\ IsStartRun
    /\ Len(config[last.project]) = 3
    /\ Len(last.calls) = 5
    /\ ~last.calls[1].ok
    /\ last.calls[2].cmd = "restart"
    /\ Saves = {5}

(* C20 as stated: pm2 save runs exactly once in a run of start.sh over a   *)
(* project with services, on a host where the supervisor is installed.     *)
C20_SaveExactlyOnce ==
    (IsStartRun /\ last.env.pm2 /\ config[last.project] # <<>>)
        => Cardinality(Saves) = 1

----------------------------------------------------------------------------
AllRegenerated == Json(TRUE, "Tous les scripts regeneres")

(* C18: a regeneration of all projects attempts every project, also after  *)
(* one failed, and the answer the caller receives differs from the answer  *)
(* of a run in which every project succeeded whenever a project failed.    *)
C18_PerProjectOutcome ==
    last.op = "regenerate-all" =>
        /\ {last.results[k].project : k \in DOMAIN last.results} = Projects
        /\ (\E k \in DOMAIN last.results : ~last.results[k].ok) =>
               last.response # AllRegenerated

----------------------------------------------------------------------------
(* modules/users.js.  A user record holds id, username, password (the     *)
(* hash), role, mustChangePassword and projects; firstName, lastName and   *)
(* createdAt, which no check of the module reads, are left out.            *)

\* the most users the store holds
MaxUsers == 2

MinUserPasswordLength == 6

cBob == <<"b", "o", "b">>
cPw == <<"p", "w">>

Usernames == {cAdmin, cBob}
UserPasswords == {cAdmin123, cPw}
UserIds == 1..(MaxUsers + 1)
RoleValues == {"admin", "user", "root"}

\* Array.prototype.findIndex, 0 for -1
FindIndex(list, Test(_)) ==
    IF \E i \in DOMAIN list : Test(list[i])
    THEN CHOOSE i \in DOMAIN list : Test(list[i]) /\ \A j \in 1..(i - 1) : ~Test(list[j])
    ELSE 0

\* Array.prototype.splice(index, 1)
Splice(list, index) == SubSeq(list, 1, index - 1) \o SubSeq(list, index + 1, Len(list))

adminCount(us) == Len(SelectSeq(us, LAMBDA u : u.role = "admin"))

\* the record as it is stored
AsStored(user) == user

\* const { password, ...userWithoutPassword } = user
WithoutPassword(user) == [f \in DOMAIN user \ {"password"} |-> user[f]]

Threw(us) == [ok |-> FALSE, users |-> us, value |-> <<>>]
Returned(us, value) == [ok |-> TRUE, users |-> us, value |-> value]

authenticate(us, username, password) ==
    LET i == FindIndex(us, LAMBDA u : u.username = username)
    IN  IF i = 0 THEN Threw(us)
        ELSE IF us[i].password # hashPassword(password) THEN Threw(us)
        ELSE Returned(us, <<WithoutPassword(us[i])>>)

listUsers(us) == Returned(us, [i \in DOMAIN us |-> WithoutPassword(us[i])])

getUserById(us, userId) ==
    LET i == FindIndex(us, LAMBDA u : u.id = userId)
    IN  IF i = 0 THEN Returned(us, <<>>) ELSE Returned(us, <<WithoutPassword(us[i])>>)

\* id is the crypto.randomUUID() of the call
createUser(us, id, username, password, role) ==
    IF FindIndex(us, LAMBDA u : u.username = username) # 0 THEN Threw(us)
    ELSE IF role \notin {"admin", "user"} THEN Threw(us)
    ELSE IF Len(password) < MinUserPasswordLength THEN Threw(us)
    ELSE LET newUser == [id |-> id, username |-> username,
                         password |-> hashPassword(password), role |-> role,
                         mustChangePassword |-> FALSE, projects |-> <<>>]
         IN  Returned(Append(us, newUser), <<WithoutPassword(newUser)>>)

deleteUser(us, userId) ==
    LET index == FindIndex(us, LAMBDA u : u.id = userId)
    IN  IF index = 0 THEN Threw(us)
        ELSE IF /\ us[index].username = cAdmin
                /\ us[index].role = "admin"
                /\ adminCount(us) = 1
        THEN Threw(us)
        ELSE Returned(Splice(us, index), <<>>)

\* updates holds a username or nothing
updateUser(us, userId, updates) ==
    LET i == FindIndex(us, LAMBDA u : u.id = userId)
    IN  IF i = 0 THEN Threw(us)
        ELSE IF /\ Truthy(updates.username)
                /\ updates.username # us[i].username
                /\ FindIndex(us, LAMBDA u : u.username = updates.username) # 0
        THEN Threw(us)
        ELSE LET user == IF updates.username # Undef
                         THEN [us[i] EXCEPT !.username = updates.username]
                         ELSE us[i]
             IN  Returned([us EXCEPT ![i] = user], <<WithoutPassword(user)>>)

changeUserRole(us, userId, newRole) ==
    LET i == FindIndex(us, LAMBDA u : u.id = userId)
    IN  IF newRole \notin {"admin", "user"} THEN Threw(us)
        ELSE IF i = 0 THEN Threw(us)
        ELSE IF us[i].role = "admin" /\ newRole = "user" /\ adminCount(us) = 1
        THEN Threw(us)
        ELSE Returned([us EXCEPT ![i].role = newRole], <<>>)

\* one call of the module, with what it returned
UserCall(op, r) ==
    /\ users' = r.users
    /\ last' = [op |-> op, status |-> IF r.ok THEN 200 ELSE 400, calls |-> <<>>,
                value |-> r.value]
    /\ UNCHANGED <<config, scripts, procs, pending, faults, databases, conns, inflight>>

Authenticate(username, password) ==
    UserCall("authenticate", authenticate(users, username, password))
ListUsers == UserCall("listUsers", listUsers(users))
GetUserById(userId) == UserCall("getUserById", getUserById(users, userId))
CreateUser(id, username, password, role) ==
    /\ Len(users) < MaxUsers
    /\ \A i \in DOMAIN users : users[i].id # id
    /\ UserCall("createUser", createUser(users, id, username, password, role))
DeleteUser(userId) == UserCall("deleteUser", deleteUser(users, userId))
UpdateUser(userId, updates) == UserCall("updateUser", updateUser(users, userId, updates))
ChangeUserRole(userId, newRole) ==
    UserCall("changeUserRole", changeUserRole(users, userId, newRole))

NextUsers ==
    \/ \E username \in Usernames, password \in UserPasswords :
          Authenticate(username, password)
    \/ ListUsers
    \/ \E userId \in UserIds : GetUserById(userId)
    \/ \E id \in UserIds, username \in Usernames, password \in UserPasswords,
          role \in RoleValues : CreateUser(id, username, password, role)
    \/ \E userId \in UserIds : DeleteUser(userId)
    \/ \E userId \in UserIds, username \in Usernames \cup {Undef} :
          UpdateUser(userId, [username |-> username])
    \/ \E userId \in UserIds, newRole \in RoleValues : ChangeUserRole(userId, newRole)

SpecUsers == Init /\ [][NextUsers]_vars

(* C23: the user store always holds at least one user whose role is        *)
(* 'admin'.                                                                *)
C23_AdminRemains == adminCount(users) >= 1

ReturningUsers == {"authenticate", "listUsers", "getUserById", "createUser", "updateUser"}

(* C30: no user record returned by authenticate, listUsers, getUserById,   *)
(* createUser or updateUser has a password field.                          *)
C30_NoPasswordReturned ==
    last.op \in ReturningUsers =>
        \A i \in DOMAIN last.value : "password" \notin DOMAIN last.value[i]

\* a full store was listed
C30_Witness ==
    /\ last.op = "listUsers"
    /\ Len(last.value) = MaxUsers
    /\ \A i \in DOMAIN users : "password" \in DOMAIN users[i]

----------------------------------------------------------------------------
(* modules/fileManager.js.  The file system is not part of the state: an   *)
(* operation whose checks pass touches the paths it computed, and `found`  *)
(* says whether its existence tests let it proceed.                        *)

\* the segments of a path between its slashes
RECURSIVE SplitSlash(_, _)
SplitSlash(ps, cur) ==
    IF ps = <<>> THEN <<cur>>
    ELSE IF Head(ps) = "/" THEN <<cur>> \o SplitSlash(Tail(ps), <<>>)
    ELSE SplitSlash(Tail(ps), Append(cur, Head(ps)))

\* the segments with "", "." and ".." resolved, from the root
RECURSIVE Resolve(_, _)
Resolve(segs, done) ==
    IF segs = <<>> THEN done
    ELSE LET seg == Head(segs)
         IN  IF seg = <<>> \/ seg = <<".">> THEN Resolve(Tail(segs), done)
             ELSE IF seg = <<".", ".">>
             THEN Resolve(Tail(segs), SubSeq(done, 1, Len(done) - 1))
             ELSE Resolve(Tail(segs), Append(done, seg))

\* path.normalize of an absolute path: a trailing slash is kept
Normalize(path) ==
    LET segs == Resolve(SplitSlash(path, <<>>), <<>>)
        slash == IF segs # <<>> /\ path[Len(path)] = "/" THEN <<"/">> ELSE <<>>
    IN  <<"/">> \o Join(segs, <<"/">>) \o slash

\* path.join(a, b), a absolute
pathJoin(a, b) == Normalize(a \o <<"/">> \o b)

\* path.dirname of a normalized absolute path
pathDirname(path) ==
    LET segs == Resolve(SplitSlash(path, <<>>), <<>>)
    IN  <<"/">> \o Join(SubSeq(segs, 1, Len(segs) - 1), <<"/">>)

\* a prefix test that ends at a path separator
StartsWithDir(s, pre) == s = pre \/ StartsWith(s, pre \o <<"/">>)

\* the outcome of an operation: access denied, or the paths it touched
Denied == [denied |-> TRUE, touched |-> {}]
Touched(found, paths) == [denied |-> FALSE, touched |-> IF found THEN paths ELSE {}]

\* if (!fullPath.startsWith(projectPath)) throw ...
Checked(projectPath, paths, found) ==
    IF \E q \in paths : ~StartsWith(q, projectPath) THEN Denied
    ELSE Touched(found, paths)

listFiles(projectPath, relativePath, found) ==
    Checked(projectPath, {pathJoin(projectPath, relativePath)}, found)

createDirectory(projectPath, relativePath, dirName, found) ==
    Checked(projectPath, {pathJoin(pathJoin(projectPath, relativePath), dirName)}, found)

deleteItem(projectPath, relativePath, found) ==
    Checked(projectPath, {pathJoin(projectPath, relativePath)}, found)

renameItem(projectPath, oldRelativePath, newName, found) ==
    LET oldFullPath == pathJoin(projectPath, oldRelativePath)
        newFullPath == pathJoin(pathDirname(oldFullPath), newName)
    IN  Checked(projectPath, {oldFullPath, newFullPath}, found)

readFile(projectPath, relativePath, found) ==
    Checked(projectPath, {pathJoin(projectPath, relativePath)}, found)

\* writeFile tests no existence
writeFile(projectPath, relativePath) ==
    Checked(projectPath, {pathJoin(projectPath, relativePath)}, TRUE)

getFileInfo(projectPath, relativePath, found) ==
    Checked(projectPath, {pathJoin(projectPath, relativePath)}, found)

copyItem(projectPath, sourcePath, destPath, found) ==
    Checked(projectPath,
            {pathJoin(projectPath, sourcePath), pathJoin(projectPath, destPath)}, found)

cUp == <<".", ".">>
cSitesOld == <<"s", "i", "t", "e", "s", "-", "o", "l", "d">>
cEtc == <<"e", "t", "c">>

\* relative paths and names a caller passes
RelativePaths ==
    { <<>>, cWeb, cWeb \o <<"/">> \o cApi, cWeb \o <<"/">>, cUp,
      cWeb \o <<"/">> \o cUp \o <<"/">> \o cApi,
      cUp \o <<"/">> \o cSitesOld \o <<"/">> \o cApi,
      cUp \o <<"/">> \o cUp \o <<"/">> \o cEtc }

ItemNames == {cApi, cUp \o <<"/">> \o cSitesOld, cUp \o <<"/">> \o cUp}

\* one call of the module on the sites root of project p
FileCall(op, p, r) ==
    /\ last' = [op |-> op, status |-> IF r.denied THEN 403 ELSE 200, calls |-> <<>>,
                root |-> SitesPath(p), touched |-> r.touched]
    /\ UNCHANGED <<config, scripts, procs, pending, faults, databases, users, conns, inflight>>

NextFiles ==
    \E p \in Projects, rel \in RelativePaths, found \in BOOLEAN :
        \/ FileCall("listFiles", p, listFiles(SitesPath(p), rel, found))
        \/ \E n \in ItemNames :
              FileCall("createDirectory", p, createDirectory(SitesPath(p), rel, n, found))
        \/ FileCall("deleteItem", p, deleteItem(SitesPath(p), rel, found))
        \/ \E n \in ItemNames :
              FileCall("renameItem", p, renameItem(SitesPath(p), rel, n, found))
        \/ FileCall("readFile", p, readFile(SitesPath(p), rel, found))
        \/ FileCall("writeFile", p, writeFile(SitesPath(p), rel))
        \/ FileCall("getFileInfo", p, getFileInfo(SitesPath(p), rel, found))
        \/ \E dest \in RelativePaths :
              FileCall("copyItem", p, copyItem(SitesPath(p), rel, dest, found))
        \/ DeleteFilesRoute(p, rel)
        \/ DeleteFilesRoute(p, <<"/">>)

SpecFiles == Init /\ [][NextFiles]_vars

FileOps ==
    {"listFiles", "createDirectory", "deleteItem", "renameItem", "readFile",
     "writeFile", "getFileInfo", "copyItem"}

(* C24: every path a file operation touches is the project root or lies    *)
(* inside the directory of the project root.                               *)
C24_StaysInsideRoot ==
    last.op \in FileOps => \A q \in last.touched : StartsWithDir(q, last.root)

\* the place a path designates: its segments resolved, no trailing slash
Location(path) == <<"/">> \o Join(Resolve(SplitSlash(path, <<>>), <<>>), <<"/">>)

(* C25: a file-delete request is rejected and removes nothing, or the path *)
(* handed to the removal designates a place strictly inside the sites root *)
(* of the project.                                                         *)
C25_RemovesInsideSitesOnly ==
    last.op = "delete-files" =>
        \/ last.status = 400 /\ last.removed = <<>>
        \/ /\ last.status = 200
           /\ StartsWith(Location(last.removed), SitesPath(last.project) \o <<"/">>)

----------------------------------------------------------------------------
(* modules/databases.js: the stored records.  A record holds id, name,     *)
(* type and projectName; host, port and the credentials, which the checks  *)
(* on stored records do not read, are left out and every create request    *)
(* is taken to carry them.                                                 *)

\* the most records of the two lists together
MaxDatabases == 2

\* the last clock value
MaxClock == 2

cMysqlPrefix == <<"m", "y", "s", "q", "l", "_">>
cMongoPrefix == <<"m", "o", "n", "g", "o", "_">>

\* `${Date.now()}`
Decimal(t) == <<(<<"0", "1", "2", "3", "4", "5", "6", "7", "8", "9">>)[t + 1]>>

DbNames == {cApi, cWeb}

\* projects.projectExists
projectExists(projectName) == projectName \in DOMAIN config

DbThrew(dbs) == [ok |-> FALSE, databases |-> dbs]
DbReturned(dbs) == [ok |-> TRUE, databases |-> dbs]

createMySQLDatabase(dbs, name, projectName, now) ==
    IF ~Truthy(name) THEN DbThrew(dbs)
    ELSE IF Truthy(projectName) /\ ~projectExists(projectName) THEN DbThrew(dbs)
    ELSE IF \E i \in DOMAIN dbs.mysql : dbs.mysql[i].name = name THEN DbThrew(dbs)
    ELSE DbReturned([dbs EXCEPT !.mysql =
             Append(@, [id |-> cMysqlPrefix \o Decimal(now), name |-> name,
                        type |-> "mysql", projectName |-> OrElse(projectName, Null)])])

createMongoDatabase(dbs, name, projectName, now) ==
    IF ~Truthy(name) THEN DbThrew(dbs)
    ELSE IF Truthy(projectName) /\ ~projectExists(projectName) THEN DbThrew(dbs)
    ELSE IF \E i \in DOMAIN dbs.mongodb : dbs.mongodb[i].name = name THEN DbThrew(dbs)
    ELSE DbReturned([dbs EXCEPT !.mongodb =
             Append(@, [id |-> cMongoPrefix \o Decimal(now), name |-> name,
                        type |-> "mongodb", projectName |-> OrElse(projectName, Null)])])

\* { ...record, ...updates }: the fields of updates replace those of the record
Spread(record, updates) == updates @@ record

\* the list with its first record of that id replaced
UpdatedList(list, id, updates) ==
    LET index == FindIndex(list, LAMBDA db : db.id = id)
    IN  IF index = 0 THEN list ELSE [list EXCEPT ![index] = Spread(@, updates)]

updateDatabase(dbs, id, updates) ==
    IF StartsWith(id, cMysqlPrefix)
    THEN IF FindIndex(dbs.mysql, LAMBDA db : db.id = id) = 0 THEN DbThrew(dbs)
         ELSE DbReturned([dbs EXCEPT !.mysql = UpdatedList(@, id, updates)])
    ELSE IF StartsWith(id, cMongoPrefix)
    THEN IF FindIndex(dbs.mongodb, LAMBDA db : db.id = id) = 0 THEN DbThrew(dbs)
         ELSE DbReturned([dbs EXCEPT !.mongodb = UpdatedList(@, id, updates)])
    ELSE DbThrew(dbs)

deleteDatabase(dbs, id) ==
    LET im == FindIndex(dbs.mysql, LAMBDA db : db.id = id)
        io == FindIndex(dbs.mongodb, LAMBDA db : db.id = id)
    IN  IF StartsWith(id, cMysqlPrefix)
        THEN IF im = 0 THEN DbThrew(dbs)
             ELSE DbReturned([dbs EXCEPT !.mysql = Splice(@, im)])
        ELSE IF StartsWith(id, cMongoPrefix)
        THEN IF io = 0 THEN DbThrew(dbs)
             ELSE DbReturned([dbs EXCEPT !.mongodb = Splice(@, io)])
        ELSE DbThrew(dbs)

assignDatabaseToProject(dbs, databaseId, projectName) ==
    IF ~projectExists(projectName) THEN DbThrew(dbs)
    ELSE updateDatabase(dbs, databaseId, [projectName |-> projectName])

unassignDatabaseFromProject(dbs, databaseId) ==
    updateDatabase(dbs, databaseId, [projectName |-> Null])

\* the records of getDatabaseById(id): find() answers the first of them
getDatabaseById(dbs, id) ==
    IF StartsWith(id, cMysqlPrefix) THEN SelectSeq(dbs.mysql, LAMBDA db : db.id = id)
    ELSE IF StartsWith(id, cMongoPrefix) THEN SelectSeq(dbs.mongodb, LAMBDA db : db.id = id)
    ELSE <<>>

StoredCount == Len(databases.mysql) + Len(databases.mongodb)

DbIds == {cMysqlPrefix \o Decimal(t) : t \in 1..MaxClock}
            \cup {cMongoPrefix \o Decimal(t) : t \in 1..MaxClock}

\* bodies of PUT /databases/:id
DbUpdates ==
    {[name |-> n] : n \in DbNames}
        \cup {[projectName |-> q] : q \in {cShop, cBlog}}
        \cup {[id |-> i] : i \in {cMysqlPrefix \o Decimal(1)}}

\* one request on the stored records, with its answer
DbCall(op, id, r) ==
    /\ databases' = r.databases
    /\ last' = [op |-> op, status |-> IF r.ok THEN 200 ELSE 400, calls |-> <<>>, id |-> id]
    /\ UNCHANGED <<config, scripts, procs, pending, faults, users, conns, inflight>>

\* POST /databases/mysql, POST /databases/mongodb
CreateMySQLRoute(name, projectName, now) ==
    /\ StoredCount < MaxDatabases
    /\ DbCall("create-mysql", cMysqlPrefix \o Decimal(now),
              createMySQLDatabase(databases, name, projectName, now))
CreateMongoRoute(name, projectName, now) ==
    /\ StoredCount < MaxDatabases
    /\ DbCall("create-mongodb", cMongoPrefix \o Decimal(now),
              createMongoDatabase(databases, name, projectName, now))
\* PUT /databases/:id, DELETE /databases/:id
UpdateDatabaseRoute(id, updates) ==
    DbCall("update", id, updateDatabase(databases, id, updates))
DeleteDatabaseRoute(id) == DbCall("delete", id, deleteDatabase(databases, id))
\* POST /databases/:id/assign, POST /databases/:id/unassign
AssignRoute(id, projectName) ==
    IF ~Truthy(projectName) THEN DbCall("assign", id, DbThrew(databases))
    ELSE DbCall("assign", id, assignDatabaseToProject(databases, id, projectName))
UnassignRoute(id) == DbCall("unassign", id, unassignDatabaseFromProject(databases, id))

NextDb ==
    \/ \E name \in DbNames, projectName \in {Undef, cShop, cBlog}, now \in 1..MaxClock :
          \/ CreateMySQLRoute(name, projectName, now)
          \/ CreateMongoRoute(name, projectName, now)
    \/ \E id \in DbIds :
          \/ \E updates \in DbUpdates : UpdateDatabaseRoute(id, updates)
          \/ DeleteDatabaseRoute(id)
          \/ \E projectName \in {Undef, cShop, cBlog} : AssignRoute(id, projectName)
          \/ UnassignRoute(id)

SpecDb == Init /\ [][NextDb]_vars

AllStored == WithType(databases.mysql, "mysql") \o WithType(databases.mongodb, "mongodb")

(* C26: no two stored databases of one type have the same name.            *)
C26_NamesUniquePerType ==
    \A i, j \in DOMAIN AllStored :
        (i # j /\ AllStored[i].type = AllStored[j].type)
            => AllStored[i].name # AllStored[j].name

(* C27: no two stored databases have the same id, so an id designates at   *)
(* most one record.                                                        *)
C27_IdsUnique ==
    /\ \A i, j \in DOMAIN AllStored : i # j => AllStored[i].id # AllStored[j].id
    /\ \A id \in DbIds : Len(getDatabaseById(databases, id)) <= 1

(* C28: the projectName of every stored database is null or the name of a  *)
(* project; no project is removed here, so a name that is no project now   *)
(* was none when it was stored.                                            *)
C28_ProjectExists ==
    \A i \in DOMAIN AllStored :
        AllStored[i].projectName = Null \/ projectExists(AllStored[i].projectName)

----------------------------------------------------------------------------
(* modules/databases.js: the calls that open a connection.  Each await of  *)
(* the source is one step of the call: connecting, running the request,    *)
(* closing in the finally block and settling.  The drivers                 *)
(* (mysql2, mongodb) are modelled by their outcomes: connecting and         *)
(* running succeed or fail, end() and close() close.                       *)

MySQLCalls == {"executeMySQLQuery"}
MongoCalls == {"executeMongoOperation", "getMongoCollections"}

\* connection.end() / client.close() with nothing closed
Leak(open, n) == open

\* connection.end(), client.close()
Close(open, n) == open \ {n}

\* !db || db.type !== ...: the record of that id, in the list of the call's type
DbFound(fn, id) ==
    /\ Len(getDatabaseById(databases, id)) > 0
    /\ StartsWith(id, IF fn \in MySQLCalls THEN cMysqlPrefix ELSE cMongoPrefix)

ConnFrame == UNCHANGED <<config, scripts, procs, pending, faults, databases, users>>

\* the call begins; it throws at once when the id is not a database of its type
BeginCall(n, fn, id) ==
    /\ inflight[n] = NoCall
    /\ IF DbFound(fn, id)
       THEN /\ inflight' = [inflight EXCEPT ![n] =
                   [fn |-> fn, pc |-> "connect", handle |-> FALSE, outcome |-> "none"]]
            /\ UNCHANGED last
       ELSE /\ last' = [op |-> fn, status |-> 0, calls |-> <<>>, call |-> n,
                        outcome |-> "not-found", opened |-> FALSE]
            /\ UNCHANGED inflight
    /\ UNCHANGED conns
    /\ ConnFrame

\* connection = await mysql.createConnection(...): the variable is assigned
\* only when the connection is made.
\* client = new MongoClient(uri); await client.connect(): the variable is
\* assigned before connecting.
Connect(n, made) ==
    /\ inflight[n].pc = "connect"
    /\ inflight' = [inflight EXCEPT ![n] =
           [@ EXCEPT !.handle = made \/ inflight[n].fn \in MongoCalls,
                     !.pc = IF made THEN "execute" ELSE "finally",
                     !.outcome = IF made THEN "none" ELSE "connect-failed"]]
    /\ conns' = IF made THEN conns \cup {n} ELSE conns
    /\ UNCHANGED last
    /\ ConnFrame

\* the outcomes of the request: unsupported is the default of the switch
ExecuteOutcomes(fn) ==
    {"returned", "failed"} \cup
        (IF fn = "executeMongoOperation" THEN {"unsupported"} ELSE {})

\* connection.execute(query); the switch on operation; listCollections()
Execute(n, outcome) ==
    /\ inflight[n].pc = "execute"
    /\ outcome \in ExecuteOutcomes(inflight[n].fn)
    /\ inflight' = [inflight EXCEPT ![n] = [@ EXCEPT !.pc = "finally", !.outcome = outcome]]
    /\ UNCHANGED <<conns, last>>
    /\ ConnFrame

\* finally { if (connection) await connection.end() }, after which the
\* call returns or throws
Finally(n) ==
    /\ inflight[n].pc = "finally"
    /\ conns' = IF inflight[n].handle THEN Close(conns, n) ELSE conns
    /\ last' = [op |-> inflight[n].fn,
                status |-> IF inflight[n].outcome = "returned" THEN 200 ELSE 500,
                calls |-> <<>>, call |-> n, outcome |-> inflight[n].outcome,
                opened |-> inflight[n].outcome # "connect-failed"]
    /\ inflight' = [inflight EXCEPT ![n] = NoCall]
    /\ ConnFrame

NextConn ==
    \/ \E n \in CallIds, fn \in MySQLCalls \cup MongoCalls,
          id \in {cMysql1, cMongo1, cMongoPrefix \o Decimal(9)} : BeginCall(n, fn, id)
    \/ \E n \in CallIds, made \in BOOLEAN : Connect(n, made)
    \/ \E n \in CallIds, outcome \in {"returned", "failed", "unsupported"} :
          Execute(n, outcome)
    \/ \E n \in CallIds : Finally(n)

SpecConn == InitAdmin /\ [][NextConn]_vars

(* C29: a connection or client that is open belongs to a call that has     *)
(* not yet left its finally block: once a call has returned or thrown, the *)
(* connection it opened is closed, whether the request succeeded, failed   *)
(* or was unsupported.                                                     *)
C29_ClosedBeforeSettling ==
    \A n \in conns : inflight[n].pc \in {"execute", "finally"}

\* a call whose connection was open and whose request failed or was
\* unsupported has thrown, and its connection is closed
C29_Witness ==
    /\ last.op \in MySQLCalls \cup MongoCalls
    /\ last.outcome \in {"failed", "unsupported"}
    /\ last.opened
    /\ last.call \notin conns
    /\ inflight[last.call] = NoCall

----------------------------------------------------------------------------
\* the stored services, each with its project
StoredServices == {<<p, i>> : p \in DOMAIN config, i \in 1..MaxServices} \cap
                  {x \in (DOMAIN config) \X (1..MaxServices) : x[2] <= Len(config[x[1]])}

(* C21: two distinct stored services, of one project or of two, never have *)
(* the same supervisor handle '<project>-<service>'.                       *)
C21_HandlesInjective ==
    \A x, y \in StoredServices :
        x # y => startPm2Name(x[1], config[x[1]][x[2]])
                    # startPm2Name(y[1], config[y[1]][y[2]])

----------------------------------------------------------------------------
\* the directory of a service as a path of the host: a stored directory that
\* is not absolute is relative to the sites root of the project
Resolved(projectName, directory) ==
    IF StartsWith(directory, <<"/">>) THEN directory
    ELSE SitesPath(projectName) \o <<"/">> \o directory

\* path d is the path t or lies inside it
Inside(d, t) == d = t \/ StartsWith(d, t \o <<"/">>)

StopsOf(calls) == {calls[i].name : i \in {j \in DOMAIN calls : calls[j].cmd = "stop"}}

(* C22: a file-delete request that removes a path asks the supervisor to   *)
(* stop exactly the services of the project whose directory is the removed *)
(* path or lies inside it.                                                 *)
C22_StopsServicesInside ==
    (last.op = "delete-files" /\ last.status = 200) =>
        StopsOf(last.calls)
            = {deletePm2Name(last.project, config[last.project][i]) :
                  i \in {j \in DOMAIN config[last.project] :
                            Inside(Resolved(last.project, config[last.project][j].directory),
                                   last.removed)}}

====
